---- MODULE Spec2Model ----
(***************************************************************************)
(* A model of cache-for-clankers: the intelligence layer (chunk_text,      *)
(* compute_importance, deduplicate_content) as operators, and the          *)
(* MemoryManager on top of a VectorStore as a state machine.               *)
(*                                                                         *)
(* Text.  A text is a sequence of symbols.  Every symbol is one character, *)
(* except "W", which stands for a run of BlockLen lower-case letters: the  *)
(* regular expressions of the source look only at whitespace, sentence     *)
(* terminators, digits and markers, so a run of letters behaves as one     *)
(* letter of greater length.  StrLen is Python's len().                    *)
(*                                                                         *)
(* Numbers.  Distances, similarities and thresholds are binary floating    *)
(* point numbers with a Precision-bit significand on the grid of multiples *)
(* of 2^-FracBits: the integer n stands for n / 2^FracBits, and a          *)
(* subtraction rounds to nearest, ties to even, as Python's float does.    *)
(* Importance scores are exact, in units of 1 / ImpScale.                  *)
(***************************************************************************)
EXTENDS Integers, Sequences, FiniteSets, TLC

VARIABLES
  index,   \* the collection of the VectorStore: entries in insertion order
  nextId,  \* the ids generate_id has handed out so far, plus one
  now,     \* the clock time.time() reads
  emb,     \* the embedding function: the point of every text
  ops,     \* the number of store and delete calls made
  call,    \* the last call and its arguments
  ret,     \* what the last call returned
  io,      \* the VectorStore calls the last call made, in order
  pc       \* "call" before and "done" after the call of a pure function

vars == <<index, nextId, now, emb, ops, call, ret, io, pc>>

(***************************************************************************)
(* Bounds of the model.                                                    *)
(***************************************************************************)
\* longest text (in symbols) given to the pure functions
MaxLen == 5
\* largest max_chunk_size given to chunk_text in SpecChunk
MaxChunk == 3
\* length of the run of letters the symbol "W" stands for
BlockLen == 250
\* bits of a float's significand
Precision == 4
\* a float is a multiple of 2^-FracBits
FracBits == 6
\* most distances given to deduplicate_content in SpecDedup
MaxNeighbours == 3
\* most store and delete calls of one behaviour
MaxWrites == 3
\* the embedding function maps a text to one of the points 0..MaxPoint of a line
MaxPoint == 2
\* largest n_results given to retrieve
MaxResults == 2
\* number of words of the run of words the symbol "U" stands for
RunWords == 100
\* longest text (in symbols) given to compute_importance in SpecImportance
MaxImpLen == 3

(***************************************************************************)
(* Constants of the program.                                               *)
(***************************************************************************)
DEFAULT_CHUNK_SIZE == 500

(***************************************************************************)
(* Small helpers.                                                          *)
(***************************************************************************)
SetMin(S) == CHOOSE x \in S : \A y \in S : x <= y

SetMax(S) == CHOOSE x \in S : \A y \in S : x >= y

\* all texts of at most n symbols over the symbols in chars
TextsUpTo(n, chars) == UNION {[1..k -> chars] : k \in 0..n}

(***************************************************************************)
(* Strings.                                                                *)
(***************************************************************************)
\* \s of the regular expressions, and the characters str.strip() removes
IsSpace(c) == c \in {" ", "\n"}

\* [.!?] of _split_sentences
IsTerminator(c) == c \in {".", "!", "?"}

\* the symbol of a run of RunWords different lowercase words of two letters,
\* none of them "a", separated by single spaces; in the texts of the model it
\* is always a word of its own
WordRun == "U"

\* the symbol of the run of letters that, with a run "W" and two other
\* characters, makes a text of DEFAULT_CHUNK_SIZE characters
FillRun == "V"

CharLen(c) ==
  IF c = "W" THEN BlockLen
  ELSE IF c = FillRun THEN DEFAULT_CHUNK_SIZE - BlockLen - 2
  ELSE IF c = WordRun THEN 3 * RunWords - 1
  ELSE 1

RECURSIVE StrLen(_)
StrLen(t) == IF t = <<>> THEN 0 ELSE CharLen(Head(t)) + StrLen(Tail(t))

\* str.strip()
Strip(t) ==
  LET keep == {i \in 1..Len(t) : ~IsSpace(t[i])}
  IN IF keep = {} THEN <<>> ELSE SubSeq(t, SetMin(keep), SetMax(keep))

\* the last position of the whitespace run that starts at i (i - 1 if none)
WsRunEnd(t, i) ==
  LET stops == {k \in i..Len(t) : ~IsSpace(t[k])}
  IN IF stops = {} THEN Len(t) ELSE SetMin(stops) - 1

\* where a match of \n\s*\n that starts at i ends (0: no match at i); \s* is
\* greedy, so the match ends at the last newline of the whitespace run
ParaMatchEnd(t, i) ==
  IF t[i] # "\n" THEN 0
  ELSE LET nl == {k \in (i + 1)..WsRunEnd(t, i) : t[k] = "\n"}
       IN IF nl = {} THEN 0 ELSE SetMax(nl)

\* re.split(r"\n\s*\n", text)
RECURSIVE SplitParagraphs(_)
SplitParagraphs(t) ==
  LET starts == {i \in 1..Len(t) : ParaMatchEnd(t, i) # 0}
  IN IF starts = {} THEN <<t>>
     ELSE LET i == SetMin(starts)
          IN <<SubSeq(t, 1, i - 1)>>
               \o SplitParagraphs(SubSeq(t, ParaMatchEnd(t, i) + 1, Len(t)))

\* re.split(r"(?<=[.!?])\s+", text)
RECURSIVE SplitAfterTerminator(_)
SplitAfterTerminator(t) ==
  LET starts == {i \in 2..Len(t) : IsSpace(t[i]) /\ IsTerminator(t[i - 1])}
  IN IF starts = {} THEN <<t>>
     ELSE LET i == SetMin(starts)
          IN <<SubSeq(t, 1, i - 1)>>
               \o SplitAfterTerminator(SubSeq(t, WsRunEnd(t, i) + 1, Len(t)))

\* [p.strip() for p in parts if p.strip()]
RECURSIVE StripNonEmpty(_)
StripNonEmpty(parts) ==
  IF parts = <<>> THEN <<>>
  ELSE LET p == Strip(Head(parts))
       IN (IF p = <<>> THEN <<>> ELSE <<p>>) \o StripNonEmpty(Tail(parts))

\* a join that keeps the first part only
JoinFirst(parts, sep) == IF parts = <<>> THEN <<>> ELSE parts[1]

\* sep.join(parts)
RECURSIVE Join(_, _)
Join(parts, sep) ==
  IF parts = <<>> THEN <<>>
  ELSE IF Len(parts) = 1 THEN parts[1]
  ELSE parts[1] \o sep \o Join(Tail(parts), sep)

ParagraphSep == <<"\n", "\n">>

SentenceSep == <<" ">>

(***************************************************************************)
(* Chunking.                                                               *)
(***************************************************************************)
_split_sentences(t) == StripNonEmpty(SplitAfterTerminator(t))

\* the loop over the sentences of one paragraph that is longer than the limit:
\* chunks with the paragraph's chunks appended
RECURSIVE PackSentences(_, _, _, _, _)
PackSentences(sentences, max_chunk_size, chunks, sentence_buf, sentence_size) ==
  IF sentences = <<>>
  THEN IF sentence_buf # <<>>
       THEN Append(chunks, Join(sentence_buf, SentenceSep))
       ELSE chunks
  ELSE LET sent == Head(sentences)
       IN IF sentence_size + StrLen(sent) > max_chunk_size /\ sentence_buf # <<>>
          THEN PackSentences(Tail(sentences), max_chunk_size,
                             Append(chunks, Join(sentence_buf, SentenceSep)),
                             <<sent>>, StrLen(sent))
          ELSE PackSentences(Tail(sentences), max_chunk_size, chunks,
                             Append(sentence_buf, sent),
                             sentence_size + StrLen(sent))

\* the loop over the paragraphs, and the flush after it
RECURSIVE PackParagraphs(_, _, _, _, _)
PackParagraphs(paragraphs, max_chunk_size, chunks, current_parts, current_size) ==
  IF paragraphs = <<>>
  THEN IF current_parts # <<>>
       THEN Append(chunks, Join(current_parts, ParagraphSep))
       ELSE chunks
  ELSE LET para == Head(paragraphs)
           flushed == IF current_parts # <<>>
                      THEN Append(chunks, Join(current_parts, ParagraphSep))
                      ELSE chunks
       IN IF StrLen(para) > max_chunk_size
          THEN PackParagraphs(Tail(paragraphs), max_chunk_size,
                              PackSentences(_split_sentences(para), max_chunk_size,
                                            flushed, <<>>, 0),
                              <<>>, 0)
          ELSE IF current_size + StrLen(para) > max_chunk_size /\ current_parts # <<>>
          THEN PackParagraphs(Tail(paragraphs), max_chunk_size, flushed,
                              <<para>>, StrLen(para))
          ELSE PackParagraphs(Tail(paragraphs), max_chunk_size, chunks,
                              Append(current_parts, para),
                              current_size + StrLen(para))

\* the paragraph loop alone, without the returns for a text of no paragraphs
chunk_text_loop_only(text, max_chunk_size) ==
  PackParagraphs(StripNonEmpty(SplitParagraphs(text)), max_chunk_size, <<>>, <<>>, 0)

chunk_text(text, max_chunk_size) ==
  LET paragraphs == StripNonEmpty(SplitParagraphs(text))
  IN IF paragraphs = <<>>
     THEN (IF Strip(text) # <<>> THEN <<Strip(text)>> ELSE << <<>> >>)
     ELSE LET chunks == PackParagraphs(paragraphs, max_chunk_size, <<>>, <<>>, 0)
          IN IF chunks # <<>> THEN chunks ELSE <<text>>

(***************************************************************************)
(* Floating point.                                                         *)
(***************************************************************************)
RECURSIVE Pow2(_)
Pow2(n) == IF n = 0 THEN 1 ELSE 2 * Pow2(n - 1)

\* the float 1.0
One == Pow2(FracBits)

\* the number of bits of n >= 0
RECURSIVE BitLen(_)
BitLen(n) == IF n = 0 THEN 0 ELSE 1 + BitLen(n \div 2)

\* the exact value n >= 0 rounded to Precision significant bits, to nearest,
\* ties to even
RoundNat(n) ==
  IF BitLen(n) <= Precision THEN n
  ELSE LET unit == Pow2(BitLen(n) - Precision)
           q == n \div unit
           r == n % unit
           up == 2 * r > unit \/ (2 * r = unit /\ q % 2 = 1)
       IN (IF up THEN q + 1 ELSE q) * unit

RoundF(n) == IF n >= 0 THEN RoundNat(n) ELSE 0 - RoundNat(0 - n)

\* Python's a - b on floats
FSub(a, b) == RoundF(a - b)

\* the floats in [lo, hi]
FloatsIn(lo, hi) == {n \in lo..hi : RoundF(n) = n}

Abs(x) == IF x >= 0 THEN x ELSE 0 - x

\* the float a decimal literal p/q (0 <= p/q <= 2) denotes: the nearest one
FloatOf(p, q) ==
  CHOOSE f \in FloatsIn(0, 2 * One) :
    \A g \in FloatsIn(0, 2 * One) :
      \/ Abs(f * q - p * One) < Abs(g * q - p * One)
      \/ (Abs(f * q - p * One) = Abs(g * q - p * One) /\ f <= g)

SIMILARITY_THRESHOLD == FloatOf(92, 100)

(***************************************************************************)
(* Deduplication.  Indices are those of the TLA+ sequence (Python's plus   *)
(* one), and None is 0.                                                    *)
(***************************************************************************)
None == 0

\* min(range(len(d)), key=lambda i: d[i]) over the indices from i on, best being
\* the best before i: min keeps the first of the smallest
RECURSIVE ArgMinFrom(_, _, _)
ArgMinFrom(d, i, best) ==
  IF i > Len(d) THEN best
  ELSE ArgMinFrom(d, i + 1, IF d[i] < d[best] THEN i ELSE best)

\* the same scan keeping the last of the smallest
RECURSIVE ArgMinLastFrom(_, _, _)
ArgMinLastFrom(d, i, best) ==
  IF i > Len(d) THEN best
  ELSE ArgMinLastFrom(d, i + 1, IF d[i] <= d[best] THEN i ELSE best)

ArgMinLast(d) == ArgMinLastFrom(d, 2, 1)

ArgMin(d) == ArgMinFrom(d, 2, 1)

deduplicate_content(candidate, existing_documents, existing_distances, threshold) ==
  IF existing_distances = <<>>
  THEN [is_duplicate |-> FALSE, best_idx |-> None]
  ELSE LET best_idx == ArgMin(existing_distances)
           similarity == FSub(One, existing_distances[best_idx])
       IN [is_duplicate |-> similarity >= threshold, best_idx |-> best_idx]

(***************************************************************************)
(* Importance scoring.  A score is exact, in units of 1 / ImpScale.        *)
(***************************************************************************)
RECURSIVE Gcd(_, _)
Gcd(a, b) == IF b = 0 THEN a ELSE Gcd(b, a % b)

RECURSIVE LcmUpTo(_)
LcmUpTo(n) == IF n <= 1 THEN 1 ELSE (LcmUpTo(n - 1) * n) \div Gcd(LcmUpTo(n - 1), n)

\* 1.0 as a score: divisible by 1000 and by twice every token count of the model
ImpScale == 1000 * LcmUpTo(MaxLen + 1)

\* \d of the regular expressions
IsDigit(c) == c \in {"0", "1", "2", "3", "4", "5", "6", "7", "8", "9"}

\* [-*\d]
IsListMarker(c) == c \in {"-", "*"} \/ IsDigit(c)

\* str.lower(), one character
LowerChar(c) == IF c = "A" THEN "a" ELSE c

Lower(t) == [i \in 1..Len(t) |-> LowerChar(t[i])]

\* str.split(): the maximal runs of non-whitespace
RECURSIVE Words(_)
Words(t) ==
  LET starts == {i \in 1..Len(t) : ~IsSpace(t[i])}
  IN IF starts = {} THEN <<>>
     ELSE LET i == SetMin(starts)
              stops == {k \in i..Len(t) : IsSpace(t[k])}
              j == IF stops = {} THEN Len(t) ELSE SetMin(stops) - 1
          IN <<SubSeq(t, i, j)>> \o Words(SubSeq(t, j + 1, Len(t)))

\* ^ with re.MULTILINE: the start of the text and after every newline
IsLineStart(t, p) == p = 1 \/ (p >= 2 /\ p <= Len(t) + 1 /\ t[p - 1] = "\n")

\* a match of ^\s*[-*\d]\.?\s starting at p
ListMarkerAt(t, p) ==
  /\ IsLineStart(t, p)
  /\ LET m == WsRunEnd(t, p) + 1
     IN /\ m <= Len(t)
        /\ IsListMarker(t[m])
        /\ \/ (m + 1 <= Len(t) /\ IsSpace(t[m + 1]))
           \/ (m + 2 <= Len(t) /\ t[m + 1] = "." /\ IsSpace(t[m + 2]))

\* the symbol of the backquote character
Backquote == "G"

\* a match of three backquotes starting at p
CodeFenceAt(t, p) ==
  p + 2 <= Len(t) /\ t[p] = Backquote /\ t[p + 1] = Backquote /\ t[p + 2] = Backquote

\* a match of :\s*$ with re.MULTILINE starting at p: $ is the end of the text
\* or the place before a newline
LineEndColonAt(t, p) ==
  /\ p <= Len(t)
  /\ t[p] = ":"
  /\ \/ WsRunEnd(t, p + 1) = Len(t)
     \/ \E k \in (p + 1)..WsRunEnd(t, p + 1) : t[k] = "\n"

\* re.search of the structure pattern: a list marker, a code fence or a colon
\* that ends a line
HasStructure(t) ==
  \E p \in 1..Len(t) : ListMarkerAt(t, p) \/ CodeFenceAt(t, p) \/ LineEndColonAt(t, p)

\* re.search(r"\d+", text)
HasDigits(t) == \E p \in 1..Len(t) : IsDigit(t[p])

\* a minimum that is its first argument
KeepFirst(a, b) == a

Min2(a, b) == IF a <= b THEN a ELSE b

\* len(words): the symbol of a run of words counts for RunWords words
RECURSIVE TokenCount(_)
TokenCount(words) ==
  IF words = <<>> THEN 0
  ELSE (IF Head(words) = <<WordRun>> THEN RunWords ELSE 1) + TokenCount(Tail(words))

\* len(set(words))
UniqueCount(words) ==
  LET distinct == {words[i] : i \in 1..Len(words)}
  IN Cardinality(distinct \ {<<WordRun>>})
       + (IF <<WordRun>> \in distinct THEN RunWords ELSE 0)

\* the score without the structure bonus and the fact bonus
compute_importance_no_bonus(text) ==
  LET words == Words(Lower(text))
      n == TokenCount(words)
  IN IF n = 0 THEN 0
     ELSE Min2(((ImpScale \div 2) * UniqueCount(words)) \div n
                 + (Min2(n, 100) * ((ImpScale \div 10) * 3)) \div 100,
               ImpScale)

\* a score is a multiple of 1 / ImpScale: exact for the texts without a run of
\* words, rounded down for a text with one when its token count does not
\* divide ImpScale
compute_importance(text) ==
  LET words == Words(Lower(text))
      n == TokenCount(words)
  IN IF n = 0 THEN 0
     ELSE LET unique_ratio == ((ImpScale \div 2) * UniqueCount(words)) \div n
              length_score == (Min2(n, 100) * ((ImpScale \div 10) * 3)) \div 100
              structure_bonus == IF HasStructure(text) THEN ImpScale \div 10 ELSE 0
              fact_bonus == IF HasDigits(text) THEN ImpScale \div 10 ELSE 0
          IN Min2(unique_ratio + length_score + structure_bonus + fact_bonus, ImpScale)

(***************************************************************************)
(* SpecChunk: chunk_text applied to every text of at most MaxLen symbols   *)
(* and every max_chunk_size in 1..MaxChunk.                                *)
(***************************************************************************)
ChunkChars == {"a", ".", " ", "\n"}

Idle ==
  /\ index = <<>>
  /\ nextId = 1
  /\ now = 0
  /\ emb = <<>>
  /\ ops = 0
  /\ io = <<>>

InitChunk ==
  /\ Idle
  /\ pc = "call"
  /\ ret = <<>>
  /\ \E text \in TextsUpTo(MaxLen, ChunkChars), max_chunk_size \in 1..MaxChunk :
       call = [op |-> "chunk_text", text |-> text, max_chunk_size |-> max_chunk_size]

ChunkCall ==
  /\ pc = "call"
  /\ call.op = "chunk_text"
  /\ ret' = chunk_text(call.text, call.max_chunk_size)
  /\ pc' = "done"
  /\ UNCHANGED <<index, nextId, now, emb, ops, call, io>>

NextChunk == ChunkCall

SpecChunk == InitChunk /\ [][NextChunk]_vars

\* a chunk that is one sentence of one paragraph: no paragraph or sentence
\* boundary inside it
IsSingleUnit(chunk) ==
  /\ Len(StripNonEmpty(SplitParagraphs(chunk))) <= 1
  /\ Len(_split_sentences(chunk)) <= 1

\* C1: every chunk chunk_text returns is at most max_chunk_size long, unless it
\* is a single sentence (or a paragraph without a sentence boundary) that is on
\* its own longer than the limit; a chunk joined from several paragraphs or
\* sentences never exceeds the limit.
C1_ChunkBound ==
  (pc = "done" /\ call.op = "chunk_text") =>
    \A i \in 1..Len(ret) :
      StrLen(ret[i]) > call.max_chunk_size => IsSingleUnit(ret[i])

\* chunk_text has returned
ChunkDone == pc = "done" /\ call.op = "chunk_text"

\* C11: a text of at most max_chunk_size characters is returned as the one
\* chunk [text], unchanged, whatever whitespace it has.
C11_ShortTextKept ==
  (ChunkDone /\ StrLen(call.text) <= call.max_chunk_size) => ret = <<call.text>>

\* the concatenation of the chunks, in order
RECURSIVE Concat(_)
Concat(chunks) == IF chunks = <<>> THEN <<>> ELSE Head(chunks) \o Concat(Tail(chunks))

\* t with all whitespace deleted
DeleteWhitespace(t) == SelectSeq(t, LAMBDA c : ~IsSpace(c))

\* C12: the chunks, concatenated in order and with all whitespace deleted, are
\* the input text with all whitespace deleted.
C12_NothingLost ==
  ChunkDone => DeleteWhitespace(Concat(ret)) = DeleteWhitespace(call.text)

\* C12 witness: several chunks, one of them joined from several sentences or
\* paragraphs
C12_Witness ==
  /\ ChunkDone
  /\ Len(ret) >= 2
  /\ \E i \in 1..Len(ret) : \E k \in 1..Len(ret[i]) : IsSpace(ret[i][k])

C14_NonEmptyChunks ==
  ChunkDone => \A i \in 1..Len(ret) : ret[i] # <<>>

(***************************************************************************)
(* SpecImportance: compute_importance applied to a text that can be a      *)
(* numbered list and to a text of prose, each of at most MaxImpLen symbols. *)
(***************************************************************************)
ListChars == {"a", "1", ".", " ", "\n", WordRun}

ProseChars == {"a", "A", " ", WordRun}

\* every run of words in t is a word of its own
RunsAreWords(t) ==
  \A i \in 1..Len(t) :
    t[i] = WordRun =>
      /\ i = 1 \/ IsSpace(t[i - 1])
      /\ i = Len(t) \/ IsSpace(t[i + 1])

ImportanceTexts(chars) == {t \in TextsUpTo(MaxImpLen, chars) : RunsAreWords(t)}

InitImportance ==
  /\ Idle
  /\ pc = "call"
  /\ ret = <<>>
  /\ \E text \in ImportanceTexts(ListChars), other \in ImportanceTexts(ProseChars) :
       call = [op |-> "compute_importance", text |-> text, other |-> other]

ImportanceCall ==
  /\ pc = "call"
  /\ call.op = "compute_importance"
  /\ ret' = <<compute_importance(call.text), compute_importance(call.other)>>
  /\ pc' = "done"
  /\ UNCHANGED <<index, nextId, now, emb, ops, call, io>>

NextImportance == ImportanceCall

SpecImportance == InitImportance /\ [][NextImportance]_vars

\* compute_importance has returned
ImportanceDone == pc = "done" /\ call.op = "compute_importance"

\* C15: every score is in [0, 1], and the score of an empty or whitespace-only
\* text is exactly 0.0.
C15_ScoreInRange ==
  ImportanceDone =>
    \A k \in 1..2 :
      LET text == IF k = 1 THEN call.text ELSE call.other
      IN /\ ret[k] >= 0
         /\ ret[k] <= ImpScale
         /\ (\A i \in 1..Len(text) : IsSpace(text[i])) => ret[k] = 0

\* C15 witness: a text that scores 1.0 and a whitespace-only text that scores 0.0
C15_Witness ==
  /\ ImportanceDone
  /\ ret[1] = ImpScale
  /\ call.other # <<>>
  /\ \A i \in 1..Len(call.other) : IsSpace(call.other[i])
  /\ ret[2] = 0

\* the number of tokens of t
Tokens(t) == TokenCount(Words(Lower(t)))

\* the number of different tokens of t
UniqueTokens(t) == UniqueCount(Words(Lower(t)))

\* t has a line that starts with a digit as a list marker
IsNumberedList(t) ==
  \E p \in 1..Len(t) : ListMarkerAt(t, p) /\ IsDigit(t[WsRunEnd(t, p) + 1])

\* first is a numbered list, second has the same token count, no digit, no
\* structure marker and a unique-token ratio no higher than first's
ListAndProse(first, second) ==
  /\ IsNumberedList(first)
  /\ HasStructure(first)
  /\ HasDigits(first)
  /\ Tokens(second) = Tokens(first)
  /\ ~HasDigits(second)
  /\ ~HasStructure(second)
  /\ UniqueTokens(second) * Tokens(first) <= UniqueTokens(first) * Tokens(second)

\* C16: a numbered list scores strictly higher than a text of the same token
\* count with no digit, no structure marker and no higher unique-token ratio,
\* also when the list's score is at the cap of 1.0.
C16_ListAboveProse ==
  (ImportanceDone /\ ListAndProse(call.text, call.other)) => ret[1] > ret[2]

\* C16 witness: a numbered list at the cap of 1.0 and prose of the same token
\* count with every token different
C16_Witness ==
  /\ ImportanceDone
  /\ ListAndProse(call.text, call.other)
  /\ ret[1] = ImpScale
  /\ UniqueTokens(call.other) = Tokens(call.other)

(***************************************************************************)
(* The embedding index: the ChromaDB collection behind VectorStore.  Two   *)
(* texts at the same point are at distance 0.0, at neighbouring points at  *)
(* 1 - 0.92, two points apart at 1.0 and further apart at 2.0.             *)
(***************************************************************************)
DistanceOf(k) ==
  IF k = 0 THEN 0
  ELSE IF k = 1 THEN FSub(One, SIMILARITY_THRESHOLD)
  ELSE IF k = 2 THEN One
  ELSE 2 * One

\* the cosine distance of two texts
Distance(a, b) == DistanceOf(Abs(emb[a] - emb[b]))

\* collection.add
CollectionAdd(coll, id, document, metadata) ==
  Append(coll, [id |-> id, document |-> document, metadata |-> metadata])

\* an update that replaces the text and metadata of every record
CollectionUpdateAll(coll, id, document, metadata) ==
  [i \in 1..Len(coll) |->
     [id |-> coll[i].id, document |-> document, metadata |-> metadata]]

\* collection.update: the record's text and metadata are replaced
CollectionUpdate(coll, id, document, metadata) ==
  [i \in 1..Len(coll) |->
     IF coll[i].id = id
     THEN [id |-> id, document |-> document, metadata |-> metadata]
     ELSE coll[i]]

\* a delete that removes the record and every older one
CollectionDeleteUpTo(coll, id) == SelectSeq(coll, LAMBDA e : e.id > id)

\* collection.delete
CollectionDelete(coll, id) == SelectSeq(coll, LAMBDA e : e.id # id)

\* the orders the collection can return its entries in: nearest first, entries
\* at the same distance in any order
Rankings(coll, text) ==
  {r \in [1..Len(coll) -> 1..Len(coll)] :
     /\ \A i, j \in 1..Len(coll) : i # j => r[i] # r[j]
     /\ \A i, j \in 1..Len(coll) :
          i < j => Distance(text, coll[r[i]].document)
                     <= Distance(text, coll[r[j]].document)}

\* collection.query(query_texts=[text], n_results=n): every result it can return
CollectionQuery(coll, text, n) ==
  {[ids |-> [i \in 1..n |-> coll[r[i]].id],
    documents |-> [i \in 1..n |-> coll[r[i]].document],
    metadatas |-> [i \in 1..n |-> coll[r[i]].metadata],
    distances |-> [i \in 1..n |-> Distance(text, coll[r[i]].document)]]
     : r \in Rankings(coll, text)}

(***************************************************************************)
(* VectorStore.                                                            *)
(***************************************************************************)
VectorStoreCount(coll) == Len(coll)

\* VectorStore.query: every result it can return
VectorStoreQuery(coll, query_text, n_results) ==
  LET n == Min2(n_results, VectorStoreCount(coll))
  IN IF n = 0
     THEN {[ids |-> <<>>, documents |-> <<>>, metadatas |-> <<>>, distances |-> <<>>]}
     ELSE CollectionQuery(coll, query_text, n)

(***************************************************************************)
(* MemoryManager.  A run of it is a record [index, nextId, ids, io]: the   *)
(* collection, the id counter, the ids stored so far and the VectorStore   *)
(* calls made so far.                                                      *)
(***************************************************************************)
similarity_threshold == SIMILARITY_THRESHOLD

\* dict.update: the keys of b win
Overlay(a, b) ==
  [k \in DOMAIN a \cup DOMAIN b |-> IF k \in DOMAIN b THEN b[k] ELSE a[k]]

\* dict.get(key, default)
MetaGet(meta, key, default) == IF key \in DOMAIN meta THEN meta[key] ELSE default

\* the add of a new entry under a fresh id
\* an add whose id is not collected
AddNewIdLost(st, content, metadata) ==
  [index |-> CollectionAdd(st.index, st.nextId, content, metadata),
   nextId |-> st.nextId + 1,
   ids |-> st.ids,
   io |-> Append(st.io, [op |-> "add", id |-> st.nextId, document |-> content,
                         metadata |-> metadata])]

AddNew(st, content, metadata) ==
  [index |-> CollectionAdd(st.index, st.nextId, content, metadata),
   nextId |-> st.nextId + 1,
   ids |-> Append(st.ids, st.nextId),
   io |-> Append(st.io, [op |-> "add", id |-> st.nextId, document |-> content,
                         metadata |-> metadata])]

\* the merge keeping the incoming text whatever the lengths
MergedIncoming(content, existing_doc) == content

\* the merge keeping the shorter text
MergedShorter(content, existing_doc) ==
  IF StrLen(content) >= StrLen(existing_doc) THEN existing_doc ELSE content

\* the more complete version
Merged(content, existing_doc) ==
  IF StrLen(content) >= StrLen(existing_doc) THEN content ELSE existing_doc

\* the branch on a non-empty store merging into the neighbour whatever the verdict
StoreAfterQueryAlwaysMerge(st, content, metadata, results) ==
  LET queried == [st EXCEPT !.io = Append(st.io, [op |-> "query", text |-> content,
                                                  n_results |-> 1,
                                                  results |-> results])]
      existing_id == results.ids[1]
      merged == Merged(content, results.documents[1])
  IN [queried EXCEPT
        !.index = CollectionUpdate(st.index, existing_id, merged, metadata),
        !.ids = Append(st.ids, existing_id),
        !.io = Append(queried.io, [op |-> "update", id |-> existing_id,
                                   document |-> merged, metadata |-> metadata])]

\* the branch of _store_with_dedup on a non-empty store, given the query's result
StoreAfterQuery(st, content, metadata, results) ==
  LET queried == [st EXCEPT !.io = Append(st.io, [op |-> "query", text |-> content,
                                                  n_results |-> 1,
                                                  results |-> results])]
      verdict == deduplicate_content(content, results.documents, results.distances,
                                     similarity_threshold)
  IN IF verdict.is_duplicate /\ verdict.best_idx # None
     THEN LET existing_id == results.ids[verdict.best_idx]
              existing_doc == results.documents[verdict.best_idx]
              merged == Merged(content, existing_doc)
          IN [queried EXCEPT
                !.index = CollectionUpdate(st.index, existing_id, merged, metadata),
                !.ids = Append(st.ids, existing_id),
                !.io = Append(queried.io, [op |-> "update", id |-> existing_id,
                                           document |-> merged,
                                           metadata |-> metadata])]
     ELSE AddNew(queried, content, metadata)

\* _store_with_dedup without the branch for an empty store
_store_with_dedup_always_query(st, content, metadata) ==
  LET counted == [st EXCEPT !.io = Append(st.io, [op |-> "count"])]
  IN {StoreAfterQuery(counted, content, metadata, results) :
        results \in VectorStoreQuery(st.index, content, 1)}

\* MemoryManager._store_with_dedup: every run it can make
_store_with_dedup(st, content, metadata) ==
  LET counted == [st EXCEPT !.io = Append(st.io, [op |-> "count"])]
  IN IF VectorStoreCount(st.index) = 0
     THEN {AddNew(counted, content, metadata)}
     ELSE {StoreAfterQuery(counted, content, metadata, results) :
             results \in VectorStoreQuery(st.index, content, 1)}

\* the metadata of one chunk with the importance left as the base metadata has it
ChunkMetaAsGiven(base_meta, chunk) == base_meta

\* the metadata of one chunk
ChunkMeta(base_meta, chunk) ==
  [base_meta EXCEPT !["importance"] = compute_importance(chunk)]

\* the loop of store over the chunks: every run it can make
RECURSIVE StoreChunks(_, _, _)
StoreChunks(st, chunks, base_meta) ==
  IF chunks = <<>> THEN {st}
  ELSE UNION {StoreChunks(next, Tail(chunks), base_meta) :
                next \in _store_with_dedup(st, Head(chunks),
                                           ChunkMeta(base_meta, Head(chunks)))}

\* the chunks of a store that chunks every content
StoreChunksAlways(content, auto_chunk) == chunk_text(content, DEFAULT_CHUNK_SIZE)

\* the chunks store splits content into
StoreChunksOf(content, auto_chunk) ==
  IF auto_chunk /\ StrLen(content) > 500
  THEN chunk_text(content, DEFAULT_CHUNK_SIZE)
  ELSE <<content>>

\* the base metadata with the session id as given, without the default
BaseMetaAsGiven(content, metadata, session_id, timestamp) ==
  LET base_meta == [timestamp |-> timestamp,
                    session_id |-> session_id,
                    importance |-> compute_importance(content)]
  IN IF metadata # <<>> THEN Overlay(base_meta, metadata) ELSE base_meta

\* the base metadata of a store call; session_id "" stands for None or ""
BaseMeta(content, metadata, session_id, timestamp) ==
  LET base_meta == [timestamp |-> timestamp,
                    session_id |-> IF session_id # "" THEN session_id ELSE "unknown",
                    importance |-> compute_importance(content)]
  IN IF metadata # <<>> THEN Overlay(base_meta, metadata) ELSE base_meta

\* the blended score of a memory, in units of 1 / (10 * One * ImpScale)
Blend(m) ==
  7 * m.similarity * ImpScale + 3 * MetaGet(m.metadata, "importance", 0) * One

\* an insertion that puts m before the memories of the same score
RECURSIVE InsertByBlendUnstable(_, _)
InsertByBlendUnstable(sorted, m) ==
  IF sorted = <<>> THEN <<m>>
  ELSE IF Blend(Head(sorted)) > Blend(m)
  THEN <<Head(sorted)>> \o InsertByBlendUnstable(Tail(sorted), m)
  ELSE <<m>> \o sorted

\* list.sort(key=Blend, reverse=True): a stable insertion of m into sorted
RECURSIVE InsertByBlend(_, _)
InsertByBlend(sorted, m) ==
  IF sorted = <<>> THEN <<m>>
  ELSE IF Blend(Head(sorted)) >= Blend(m)
  THEN <<Head(sorted)>> \o InsertByBlend(Tail(sorted), m)
  ELSE <<m>> \o sorted

RECURSIVE SortByBlend(_)
SortByBlend(memories) ==
  IF memories = <<>> THEN <<>>
  ELSE InsertByBlend(SortByBlend(SubSeq(memories, 1, Len(memories) - 1)),
                     memories[Len(memories)])

\* the loop without the importance filter
MemoriesUnfiltered(results, i, min_importance) ==
  [k \in 1..Len(results.documents) |->
     [id |-> results.ids[k], content |-> results.documents[k],
      metadata |-> results.metadatas[k],
      similarity |-> FSub(One, results.distances[k])]]

\* the loop with the distance itself taken for the similarity
RECURSIVE MemoriesByDistance(_, _, _)
MemoriesByDistance(results, i, min_importance) ==
  IF i > Len(results.documents) THEN <<>>
  ELSE LET meta == results.metadatas[i]
           importance == MetaGet(meta, "importance", 0)
       IN (IF importance < min_importance
           THEN <<>>
           ELSE <<[id |-> results.ids[i], content |-> results.documents[i],
                   metadata |-> meta,
                   similarity |-> results.distances[i]]>>)
            \o MemoriesByDistance(results, i + 1, min_importance)

\* the loop of retrieve over the query's results
RECURSIVE Memories(_, _, _)
Memories(results, i, min_importance) ==
  IF i > Len(results.documents) THEN <<>>
  ELSE LET meta == results.metadatas[i]
           importance == MetaGet(meta, "importance", 0)
       IN (IF importance < min_importance
           THEN <<>>
           ELSE <<[id |-> results.ids[i], content |-> results.documents[i],
                   metadata |-> meta,
                   similarity |-> FSub(One, results.distances[i])]>>)
            \o Memories(results, i + 1, min_importance)

\* memories[:n_results]
\* no truncation
KeepAll(seq, n) == seq

Truncate(seq, n) == SubSeq(seq, 1, Min2(Len(seq), n))

(***************************************************************************)
(* Spec: the calls of a MemoryManager, one after the other.                *)
(***************************************************************************)
TextA == <<"W", "1">>

TextB == <<"W", "2">>

TextC == <<"W", " ", "W">>

TextABC == TextA \o ParagraphSep \o TextB \o ParagraphSep \o TextC

\* the texts an entry or a query can hold
Texts == {TextA, TextB, TextC}

\* an importance of 5.0 is outside [0, 1]
CallerMeta == [importance |-> 5 * ImpScale, source |-> "unit_test"]

\* a session_id key in the caller's metadata
SessionMeta == [session_id |-> "m1"]

\* the arguments of the store calls: every content with the defaults (<<>>
\* stands for no metadata, "" for no session id), one call with metadata,
\* a session id and no chunking, and one whose metadata has a session_id key
StoreArgs ==
  {[content |-> c, metadata |-> <<>>, session_id |-> "", auto_chunk |-> TRUE]
     : c \in Texts \cup {TextABC}}
    \cup {[content |-> TextA, metadata |-> CallerMeta, session_id |-> "s1",
           auto_chunk |-> FALSE],
          [content |-> TextB, metadata |-> SessionMeta, session_id |-> "s1",
           auto_chunk |-> TRUE]}

\* the store calls with the default arguments
DefaultArgs == {a \in StoreArgs : a.metadata = <<>>}

MinImportances == {0, ImpScale \div 2}

\* the texts retrieve is asked for
Queries == {TextA, TextC}

Init ==
  /\ index = <<>>
  /\ nextId = 1
  /\ now = 0
  /\ emb \in [Texts -> 0..MaxPoint]
  /\ ops = 0
  /\ call = [op |-> "init"]
  /\ ret = <<>>
  /\ io = <<>>
  /\ pc = "done"

Store(content, metadata, session_id, auto_chunk) ==
  /\ ops < MaxWrites
  /\ \E st \in StoreChunks([index |-> index, nextId |-> nextId, ids |-> <<>>, io |-> <<>>],
                           StoreChunksOf(content, auto_chunk),
                           BaseMeta(content, metadata, session_id, now)) :
       /\ index' = st.index
       /\ nextId' = st.nextId
       /\ ret' = st.ids
       /\ io' = st.io
  /\ now' = now + 1
  /\ ops' = ops + 1
  /\ call' = [op |-> "store", content |-> content, metadata |-> metadata,
              session_id |-> session_id, auto_chunk |-> auto_chunk]
  /\ UNCHANGED <<emb, pc>>

\* retrieve asking the store for n_results candidates only
RetrieveNoOverfetch(query, n_results, min_importance) ==
  /\ call' = [op |-> "retrieve", query |-> query, n_results |-> n_results,
              min_importance |-> min_importance]
  /\ IF VectorStoreCount(index) = 0
     THEN /\ ret' = <<>>
          /\ io' = <<[op |-> "count"]>>
     ELSE LET fetch_n == Min2(n_results, VectorStoreCount(index))
          IN \E results \in VectorStoreQuery(index, query, fetch_n) :
               /\ ret' = Truncate(SortByBlend(Memories(results, 1, min_importance)),
                                  n_results)
               /\ io' = <<[op |-> "count"], [op |-> "count"],
                          [op |-> "query", text |-> query, n_results |-> fetch_n,
                           results |-> results]>>
  /\ UNCHANGED <<index, nextId, now, emb, ops, pc>>

\* retrieve without the return for an empty store
RetrieveAlwaysQuery(query, n_results, min_importance) ==
  /\ call' = [op |-> "retrieve", query |-> query, n_results |-> n_results,
              min_importance |-> min_importance]
  /\ LET fetch_n == Min2(n_results * 3, VectorStoreCount(index))
     IN \E results \in VectorStoreQuery(index, query, fetch_n) :
          /\ ret' = Truncate(SortByBlend(Memories(results, 1, min_importance)),
                             n_results)
          /\ io' = <<[op |-> "count"], [op |-> "count"],
                     [op |-> "query", text |-> query, n_results |-> fetch_n,
                      results |-> results]>>
  /\ UNCHANGED <<index, nextId, now, emb, ops, pc>>

Retrieve(query, n_results, min_importance) ==
  /\ call' = [op |-> "retrieve", query |-> query, n_results |-> n_results,
              min_importance |-> min_importance]
  /\ IF VectorStoreCount(index) = 0
     THEN /\ ret' = <<>>
          /\ io' = <<[op |-> "count"]>>
     ELSE LET fetch_n == Min2(n_results * 3, VectorStoreCount(index))
          IN \E results \in VectorStoreQuery(index, query, fetch_n) :
               /\ ret' = Truncate(SortByBlend(Memories(results, 1, min_importance)),
                                  n_results)
               /\ io' = <<[op |-> "count"], [op |-> "count"],
                          [op |-> "query", text |-> query, n_results |-> fetch_n,
                           results |-> results]>>
  /\ UNCHANGED <<index, nextId, now, emb, ops, pc>>

Delete(memory_id) ==
  /\ ops < MaxWrites
  /\ index' = CollectionDelete(index, memory_id)
  /\ io' = <<[op |-> "delete", id |-> memory_id]>>
  /\ ops' = ops + 1
  /\ call' = [op |-> "delete", memory_id |-> memory_id]
  /\ ret' = <<>>
  /\ UNCHANGED <<nextId, now, emb, pc>>

\* VectorStore.add called by another client of the same collection, with
\* metadata of its own
VectorStoreAdd(document, metadata) ==
  /\ ops < MaxWrites
  /\ index' = CollectionAdd(index, nextId, document, metadata)
  /\ nextId' = nextId + 1
  /\ io' = <<[op |-> "add", id |-> nextId, document |-> document,
              metadata |-> metadata]>>
  /\ ops' = ops + 1
  /\ call' = [op |-> "add", document |-> document, metadata |-> metadata]
  /\ ret' = <<>>
  /\ UNCHANGED <<now, emb, pc>>

Next ==
  \/ \E a \in StoreArgs : Store(a.content, a.metadata, a.session_id, a.auto_chunk)
  \/ \E memory_id \in 1..nextId : Delete(memory_id)

Spec == Init /\ [][Next]_vars

(***************************************************************************)
(* Claims about store, under Spec.                                         *)
(***************************************************************************)
\* the step is a call of store
StoreStep == call'.op = "store" /\ ops' = ops + 1

\* C2: storing the same content twice in succession leaves count() after the
\* second call equal to count() after the first.
C2_Idempotent ==
  [][(call.op = "store" /\ StoreStep /\ call' = call) => Len(index') = Len(index)]_vars

\* C3: after any store and delete calls, with any caller metadata, every entry's
\* importance is in [0, 1].
C3_ImportanceInRange ==
  \A i \in 1..Len(index) :
    /\ index[i].metadata.importance >= 0
    /\ index[i].metadata.importance <= ImpScale

\* C3 witness: an entry written by a store call whose metadata gave an
\* importance of 5.0
C3_Witness ==
  /\ call.op = "store"
  /\ call.metadata # <<>>
  /\ {"importance", "source"} \subseteq DOMAIN call.metadata
  /\ call.metadata.importance > ImpScale
  /\ \E i \in 1..Len(index) :
       /\ index[i].id = ret[1]
       /\ index[i].metadata.source = call.metadata.source

\* C4: every entry's importance is the score of the content the entry holds.
C4_ImportanceOfContent ==
  \A i \in 1..Len(index) :
    index[i].metadata.importance = compute_importance(index[i].document)

\* C5: an entry's timestamp never changes after the entry is first written.
C5_TimestampKept ==
  [][\A i \in 1..Len(index), j \in 1..Len(index') :
       index[i].id = index'[j].id =>
         index'[j].metadata.timestamp = index[i].metadata.timestamp]_vars

\* the query q of the log found a duplicate
FoundDuplicate(q) ==
  deduplicate_content(q.text, q.results.documents, q.results.distances,
                      similarity_threshold).is_duplicate

\* the longer of the incoming chunk and the existing document, the incoming
\* chunk when they are equally long
Longer(chunk, existing) ==
  IF StrLen(existing) > StrLen(chunk) THEN existing ELSE chunk

\* the number of the chunk the k-th VectorStore call of a store call belongs to
ChunkNo(log, k) == Cardinality({j \in 1..k : log[j].op = "count"})

\* C8: when a chunk is classified as a duplicate of its nearest neighbour, no
\* entry is created: the existing entry keeps its id, its content becomes the
\* longer of the chunk and the existing document (the chunk when equally long),
\* count() is unchanged and the existing id is returned.
C8_Merge ==
  [][StoreStep =>
       /\ \A k \in 1..Len(io') :
            (io'[k].op = "query" /\ FoundDuplicate(io'[k])) =>
              /\ k + 1 <= Len(io')
              /\ io'[k + 1].op = "update"
              /\ io'[k + 1].id = io'[k].results.ids[1]
              /\ io'[k + 1].document
                   = Longer(io'[k].text, io'[k].results.documents[1])
              /\ ret'[ChunkNo(io', k)] = io'[k].results.ids[1]
       /\ Len(index') = Len(index) + Cardinality({k \in 1..Len(io') : io'[k].op = "add"})
       /\ (Len(io') = 3 /\ io'[2].op = "query" /\ FoundDuplicate(io'[2])) =>
            /\ Len(index') = Len(index)
            /\ ret' = <<io'[2].results.ids[1]>>
            /\ \A i \in 1..Len(index) :
                 /\ index'[i].id = index[i].id
                 /\ index[i].id = ret'[1] =>
                      index'[i].document = Longer(call'.content, index[i].document)
                 /\ index[i].id # ret'[1] => index'[i] = index[i]]_vars

\* C8 witness: a store call merged its chunk into a longer existing document,
\* which was kept
C8_Witness ==
  /\ call.op = "store"
  /\ Len(io) = 3
  /\ io[2].op = "query"
  /\ io[3].op = "update"
  /\ StrLen(io[2].results.documents[1]) > StrLen(call.content)
  /\ \E i \in 1..Len(index) :
       index[i].id = ret[1] /\ index[i].document = io[2].results.documents[1]

\* the VectorStore calls of the log that write: add and update
Writes(log) == {k \in 1..Len(log) : log[k].op \in {"add", "update"}}

\* C19: store returns one id per chunk, in chunk order: the i-th id is the id
\* of the entry the i-th chunk was added as or merged into.
C19_IdPerChunk ==
  [][StoreStep =>
       LET chunks == IF call'.auto_chunk /\ StrLen(call'.content) > 500
                     THEN chunk_text(call'.content, 500)
                     ELSE <<call'.content>>
       IN /\ Len(ret') = Len(chunks)
          /\ \A i \in 1..Len(chunks) :
               /\ Cardinality({k \in Writes(io') : ChunkNo(io', k) = i}) = 1
               /\ \E j \in 1..Len(index') : index'[j].id = ret'[i]
          /\ \A k \in Writes(io') :
               LET i == ChunkNo(io', k)
               IN /\ i <= Len(chunks)
                  /\ io'[k].id = ret'[i]
                  /\ io'[k].op = "add" => io'[k].document = chunks[i]
                  /\ io'[k].op = "update" =>
                       /\ io'[k - 1].op = "query"
                       /\ io'[k - 1].text = chunks[i]
                       /\ io'[k].id = io'[k - 1].results.ids[1]]_vars

\* C19 witness: a store call of three chunks, the first two of them merged into
\* the same entry and the third into another
C19_Witness ==
  /\ call.op = "store"
  /\ Len(ret) = 3
  /\ ret[1] = ret[2]
  /\ ret[3] # ret[1]

\* the entries of the index a store call wrote: those whose id it returned
WrittenBy(coll, ids) ==
  {j \in 1..Len(coll) : \E i \in 1..Len(ids) : ids[i] = coll[j].id}

\* C21: for every key of the metadata given to store, the default keys
\* timestamp, session_id and importance among them, every entry the call wrote
\* has the caller's value under that key.
C21_CallerWins ==
  (call.op = "store" /\ call.metadata # <<>>) =>
    \A j \in WrittenBy(index, ret) :
      \A k \in DOMAIN call.metadata :
        /\ k \in DOMAIN index[j].metadata
        /\ index[j].metadata[k] = call.metadata[k]

\* the keys store puts in every metadata
DefaultKeys == {"timestamp", "session_id", "importance"}

\* every entry has the default keys, and an entry the step did not write keeps
\* its session_id
KeysKept ==
  /\ \A j \in 1..Len(index') : DefaultKeys \subseteq DOMAIN index'[j].metadata
  /\ \A i \in 1..Len(index), j \in 1..Len(index') :
       (index[i].id = index'[j].id /\ ~(StoreStep /\ j \in WrittenBy(index', ret'))) =>
         index'[j].metadata.session_id = index[i].metadata.session_id

\* the store call of the step has a session_id key in its metadata
HasSessionKey ==
  call'.metadata # <<>> /\ "session_id" \in DOMAIN call'.metadata

\* C22, as stated: every entry has the keys timestamp, session_id and
\* importance; its session_id is the session id given to the store call that
\* last wrote it, and "unknown" when that call gave none and no session_id
\* metadata key.
C22_SessionOfLastWriter ==
  [][/\ KeysKept
     /\ StoreStep =>
          \A j \in WrittenBy(index', ret') :
            /\ call'.session_id # "" =>
                 index'[j].metadata.session_id = call'.session_id
            /\ (call'.session_id = "" /\ ~HasSessionKey) =>
                 index'[j].metadata.session_id = "unknown"]_vars

\* C22, amended: every entry has the keys timestamp, session_id and
\* importance; its session_id is the session_id key of the metadata of the
\* store call that last wrote it when the metadata has one, else the session
\* id given to that call, else "unknown".
C22_SessionOrMetadataKey ==
  [][/\ KeysKept
     /\ StoreStep =>
          \A j \in WrittenBy(index', ret') :
            index'[j].metadata.session_id
              = IF HasSessionKey THEN call'.metadata.session_id
                ELSE IF call'.session_id # "" THEN call'.session_id
                ELSE "unknown"]_vars

\* C22 witness: an entry written by a call that gave a session id and a
\* session_id metadata key, next to an entry with the default
C22_Witness ==
  /\ call.op = "store"
  /\ call.session_id = "s1"
  /\ call.metadata = SessionMeta
  /\ \E j \in WrittenBy(index, ret) : index[j].metadata.session_id = "m1"
  /\ \E j \in 1..Len(index) : index[j].metadata.session_id = "unknown"

\* the step is a call of delete
DeleteStep == call'.op = "delete" /\ ops' = ops + 1

\* C23: delete of an id in the index removes that entry and nothing else;
\* delete of an id not in the index leaves the index unchanged.
C23_DeleteExactlyOne ==
  [][DeleteStep =>
       IF \E i \in 1..Len(index) : index[i].id = call'.memory_id
       THEN /\ Len(index') = Len(index) - 1
            /\ \A j \in 1..Len(index') : index'[j].id # call'.memory_id
            /\ \A i \in 1..Len(index) :
                 index[i].id # call'.memory_id =>
                   \E j \in 1..Len(index') : index'[j] = index[i]
       ELSE index' = index]_vars

\* C23 witness: one store call added two or more entries and the one delete
\* after it removed one of them
C23_Witness ==
  /\ call.op = "delete"
  /\ ops = 2
  /\ nextId >= 3
  /\ Len(index) = nextId - 2
  /\ \A j \in 1..Len(index) : index[j].id # call.memory_id

\* the queries of a call log
QueriesOf(log) == {k \in 1..Len(log) : log[k].op = "query"}

\* the calls of a log that are counts: _store_with_dedup begins with one
Counts(log) == {k \in 1..Len(log) : log[k].op = "count"}

\* the calls _store_with_dedup made for the chunk whose count is at c
CallsOfChunk(log, c) ==
  {k \in c..Len(log) : \A k2 \in Counts(log) : k2 > c => k < k2}

\* C30: for each chunk store makes one write, an add or an update, and no
\* delete; the entries it neither added nor merged into keep their id, text
\* and metadata, no entry is removed, and the count grows by no more than the
\* number of chunks.
C30_OneWritePerChunk ==
  [][StoreStep =>
       LET chunks == StoreChunksOf(call'.content, call'.auto_chunk)
           touched == {ret'[k] : k \in 1..Len(ret')}
       IN /\ Cardinality(Counts(io')) = Len(chunks)
          /\ \A c \in Counts(io') :
               Cardinality(CallsOfChunk(io', c) \cap Writes(io')) = 1
          /\ \A k \in 1..Len(io') : io'[k].op # "delete"
          /\ Len(index') >= Len(index)
          /\ Len(index') <= Len(index) + Len(chunks)
          /\ \A i \in 1..Len(index) :
               /\ index'[i].id = index[i].id
               /\ index[i].id \notin touched => index'[i] = index[i]
          /\ Cardinality({j \in 1..Len(index') :
                            j > Len(index) \/ index'[j] # index[j]}) <= Len(chunks)
    ]_vars

\* C30 witness: a store of one chunk merged into one of two entries, and the
\* other entry is in the index with another id
C30_Witness ==
  /\ call.op = "store"
  /\ Len(ret) = 1
  /\ Len(index) = 2
  /\ \E k \in 1..Len(io) : io[k].op = "update" /\ io[k].id = ret[1]
  /\ \E j \in 1..Len(index) : index[j].id # ret[1]

\* the chunks a store call submits
ChunksOfCall(c) ==
  LET chunks == StoreChunksOf(c.content, c.auto_chunk)
  IN {chunks[k] : k \in 1..Len(chunks)}

\* C32: a store call leaves in every entry either the text the entry had or
\* one of the chunks of the call, whole, and no entry with a shorter text than
\* it had; a delete changes the text of no entry.  So every entry's text is
\* at all times a chunk some store call submitted, and its length never
\* decreases.
C32_WholeAndNeverShorter ==
  [][/\ StoreStep =>
          \A j \in 1..Len(index') :
            \/ index'[j].document \in ChunksOfCall(call')
            \/ \E i \in 1..Len(index) :
                 index[i].id = index'[j].id /\ index[i].document = index'[j].document
     /\ (StoreStep \/ DeleteStep) =>
          \A j \in 1..Len(index') : \A i \in 1..Len(index) :
            index[i].id = index'[j].id =>
              StrLen(index'[j].document) >= StrLen(index[i].document)
     /\ DeleteStep =>
          \A j \in 1..Len(index') : \E i \in 1..Len(index) : index[i] = index'[j]
    ]_vars

\* C32 witness: a store merged a chunk into an entry that holds a longer text,
\* and the entry has the longer text
C32_Witness ==
  /\ call.op = "store"
  /\ \E k \in 2..Len(io) :
       /\ io[k].op = "update" /\ io[k - 1].op = "query"
       /\ io[k].document = io[k - 1].results.documents[1]
       /\ StrLen(io[k].document) > StrLen(io[k - 1].text)
       /\ \E j \in 1..Len(index) :
            index[j].id = io[k].id /\ index[j].document = io[k].document

\* the ids of a collection
IdsOf(coll) == {coll[i].id : i \in 1..Len(coll)}

\* C33: for a chunk that meets an empty index store makes no query and adds
\* the chunk under a fresh id; for a chunk that meets a non-empty index it
\* makes one query, for one neighbour, the nearest, and when that neighbour is
\* no duplicate it adds the chunk under an id no entry has.
C33_AddOrQuery ==
  [][StoreStep =>
       \A c \in Counts(io') :
         LET calls == CallsOfChunk(io', c)
             empty == c = 1 /\ VectorStoreCount(index) = 0
             adds == {k \in calls : io'[k].op = "add"}
         IN /\ empty => /\ calls \cap QueriesOf(io') = {}
                        /\ calls = {c, c + 1}
                        /\ io'[c + 1].op = "add"
            /\ ~empty => /\ Cardinality(calls \cap QueriesOf(io')) = 1
                         /\ io'[c + 1].op = "query"
                         /\ io'[c + 1].n_results = 1
                         /\ Len(io'[c + 1].results.ids) = 1
                         /\ ~FoundDuplicate(io'[c + 1]) =>
                              (c + 2 \in calls /\ io'[c + 2].op = "add")
            /\ (c = 1 /\ ~empty) =>
                 \A i \in 1..Len(index) :
                   io'[2].results.distances[1] <= Distance(io'[2].text, index[i].document)
            /\ \A k \in adds :
                 /\ io'[k].id \notin IdsOf(index)
                 /\ \A k2 \in Writes(io') : k2 < k => io'[k2].id # io'[k].id
                 /\ io'[k].id \in IdsOf(index')
                 /\ io'[k].id = ret'[ChunkNo(io', k)]
    ]_vars

\* C33 witness: a store of one chunk on an index of one entry queried, found
\* no duplicate and added a second entry under another id
C33_Witness ==
  /\ call.op = "store"
  /\ Len(io) = 3 /\ io[2].op = "query" /\ io[3].op = "add"
  /\ ~FoundDuplicate(io[2])
  /\ Len(index) = 2
  /\ index[2].id = io[3].id
  /\ index[1].id = io[2].results.ids[1]
  /\ index[1].id # index[2].id

\* text is within the similarity threshold of chunk
WithinThreshold(chunk, text) ==
  FSub(One, Distance(chunk, text)) >= similarity_threshold

\* C34: when store has returned, every id it returned is the id of an entry
\* of the index, and for every chunk that no later chunk of the call was
\* written to the same entry as, that entry's text is within the similarity
\* threshold of the chunk.
C34_ReturnedIdsPresent ==
  call.op = "store" =>
    LET chunks == StoreChunksOf(call.content, call.auto_chunk)
    IN /\ Len(ret) = Len(chunks)
       /\ \A k \in 1..Len(ret) :
            /\ ret[k] \in IdsOf(index)
            /\ (\A k2 \in (k + 1)..Len(ret) : ret[k2] # ret[k]) =>
                 \E j \in 1..Len(index) :
                   /\ index[j].id = ret[k]
                   /\ WithinThreshold(chunks[k], index[j].document)

\* C34 witness: a store of three chunks wrote all of them to one entry, which
\* holds the third and is not within the threshold of the first
C34_Witness ==
  /\ call.op = "store"
  /\ Len(ret) = 3
  /\ ret[1] = ret[3] /\ ret[2] = ret[3]
  /\ \E j \in 1..Len(index) :
       /\ index[j].id = ret[3]
       /\ index[j].document = TextC
       /\ WithinThreshold(TextC, index[j].document)
       /\ ~WithinThreshold(TextA, index[j].document)

(***************************************************************************)
(* SpecWhole: store calls whose content has whitespace around it and is    *)
(* exactly DEFAULT_CHUNK_SIZE characters long, or longer.                  *)
(***************************************************************************)
\* 500 characters, the first a space
Padded500 == <<" ", FillRun, " ", "W">>

\* more than 500 characters, the first a space
Padded502 == <<" ", "W", " ", "W">>

\* the texts an entry can hold: the contents, and what chunk_text makes of them
WholeTexts == {Padded500, Padded502, Strip(Padded500), Strip(Padded502)}

WholeArgs ==
  {[content |-> Padded500, auto_chunk |-> TRUE],
   [content |-> Padded502, auto_chunk |-> FALSE],
   [content |-> Padded502, auto_chunk |-> TRUE]}

InitWhole ==
  /\ index = <<>>
  /\ nextId = 1
  /\ now = 0
  /\ emb \in [WholeTexts -> 0..MaxPoint]
  /\ ops = 0
  /\ call = [op |-> "init"]
  /\ ret = <<>>
  /\ io = <<>>
  /\ pc = "done"

NextWhole == \E a \in WholeArgs : Store(a.content, <<>>, "", a.auto_chunk)

SpecWhole == InitWhole /\ [][NextWhole]_vars

\* the step is a store call that does not chunk: auto_chunk is false, or the
\* content has at most 500 characters
WholeStoreStep ==
  StoreStep /\ (~call'.auto_chunk \/ StrLen(call'.content) <= 500)

\* C20, as stated: a store call that does not chunk returns one id and makes
\* one index write, and the text it writes is the content unchanged.
C20_WrittenTextIsContent ==
  [][WholeStoreStep =>
       /\ Len(ret') = 1
       /\ Cardinality(Writes(io')) = 1
       /\ \A k \in Writes(io') : io'[k].document = call'.content]_vars

\* C20, amended: a store call that does not chunk returns one id and makes one
\* index write for the content unchanged: an add of the content, or on a merge
\* an update with the longer of the content and the existing document.
C20_WholeContent ==
  [][WholeStoreStep =>
       /\ Len(ret') = 1
       /\ Cardinality(Writes(io')) = 1
       /\ Cardinality({k \in 1..Len(io') : io'[k].op = "count"}) = 1
       /\ \A k \in Writes(io') :
            /\ io'[k].op = "add" => io'[k].document = call'.content
            /\ io'[k].op = "update" =>
                 /\ io'[k - 1].op = "query"
                 /\ io'[k - 1].text = call'.content
                 /\ io'[k].document
                      = Longer(call'.content, io'[k - 1].results.documents[1])]_vars

\* C20 witness: a content of more than 500 characters stored whole with
\* auto_chunk false, its whitespace kept, next to an entry that holds a content
\* of exactly 500 characters with its whitespace
C20_Witness ==
  /\ call.op = "store"
  /\ ~call.auto_chunk
  /\ StrLen(call.content) > 500
  /\ Strip(call.content) # call.content
  /\ \E j \in 1..Len(index) : index[j].id = ret[1] /\ index[j].document = call.content
  /\ \E j \in 1..Len(index) :
       StrLen(index[j].document) = 500 /\ Strip(index[j].document) # index[j].document

(***************************************************************************)
(* SpecList: store, delete and list_all calls of a MemoryManager, and       *)
(* entries another client of the collection adds.                          *)
(***************************************************************************)
\* the largest limit list_all is called with
MaxLimit == 3

\* VectorStore.get_all: the whole collection, in the order it holds it
VectorStoreGetAll(coll) ==
  [ids |-> [k \in 1..Len(coll) |-> coll[k].id],
   documents |-> [k \in 1..Len(coll) |-> coll[k].document],
   metadatas |-> [k \in 1..Len(coll) |-> coll[k].metadata]]

\* a list that repeats the first entry
ListMemoriesRepeated(result) ==
  [i \in 1..Len(result.documents) |->
     [id |-> result.ids[1], content |-> result.documents[1],
      metadata |-> result.metadatas[1]]]

\* the list comprehension of list_all
ListMemories(result) ==
  [i \in 1..Len(result.documents) |->
     [id |-> result.ids[i], content |-> result.documents[i],
      metadata |-> result.metadatas[i]]]

\* a list_all that takes the memories it returns out of the collection
ListAllConsuming(limit) ==
  /\ call' = [op |-> "list_all", limit |-> limit]
  /\ ret' = Truncate(ListMemories(VectorStoreGetAll(index)), limit)
  /\ io' = <<[op |-> "get_all"]>>
  /\ index' = SubSeq(index, Min2(limit, Len(index)) + 1, Len(index))
  /\ UNCHANGED <<nextId, now, emb, ops, pc>>

\* MemoryManager.list_all
ListAll(limit) ==
  /\ call' = [op |-> "list_all", limit |-> limit]
  /\ ret' = Truncate(ListMemories(VectorStoreGetAll(index)), limit)
  /\ io' = <<[op |-> "get_all"]>>
  /\ UNCHANGED <<index, nextId, now, emb, ops, pc>>

NextList ==
  \/ \E a \in DefaultArgs : Store(a.content, a.metadata, a.session_id, a.auto_chunk)
  \/ VectorStoreAdd(TextC, [key |-> "val"])
  \/ \E memory_id \in 1..nextId : Delete(memory_id)
  \/ \E limit \in 0..MaxLimit : ListAll(limit)

SpecList == Init /\ [][NextList]_vars

\* the step is a call of list_all
ListStep == call'.op = "list_all" /\ io' = <<[op |-> "get_all"]>>

\* C27: list_all(limit) with limit >= 0 returns min(limit, count()) memories,
\* each the id, content and metadata of an entry of the index, no entry twice,
\* and leaves the index as it was.
C27_ListAll ==
  [][ListStep =>
       /\ Len(ret') = Min2(call'.limit, VectorStoreCount(index))
       /\ \A i \in 1..Len(ret') :
            /\ DOMAIN ret'[i] = {"id", "content", "metadata"}
            /\ \E j \in 1..Len(index') :
                 /\ index'[j].id = ret'[i].id
                 /\ index'[j].document = ret'[i].content
                 /\ index'[j].metadata = ret'[i].metadata
       /\ \A i, k \in 1..Len(ret') : i # k => ret'[i].id # ret'[k].id
       /\ index' = index
    ]_vars

\* C27 witness: list_all(2) on an index of more than two entries returned two
C27_Witness ==
  /\ call.op = "list_all" /\ call.limit = 2
  /\ VectorStoreCount(index) > 2
  /\ Len(ret) = 2
  /\ ret[1].id # ret[2].id

(***************************************************************************)
(* SpecCli: the store command of the command line, and store calls made    *)
(* on the MemoryManager directly, with empty and blank texts.              *)
(***************************************************************************)
Empty == <<>>

Blank == <<" ", "\n">>

\* the texts of the command line and of the direct calls
CliTexts == {Empty, Blank, TextA}

\* args.text: no argument (<<>>) or one (<<text>>)
TextArgs == {<<>>} \cup {<<t>> : t \in CliTexts}

InitCli ==
  /\ index = <<>>
  /\ nextId = 1
  /\ now = 0
  /\ emb \in [CliTexts -> 0..MaxPoint]
  /\ ops = 0
  /\ call = [op |-> "init"]
  /\ ret = <<>>
  /\ io = <<>>
  /\ pc = "done"

\* the store command without the check of the text
CliStoreUnchecked(text_arg, stdin, session, no_chunk) ==
  LET text == IF text_arg = <<>> THEN stdin ELSE text_arg[1]
  IN /\ ops < MaxWrites
     /\ \E st \in StoreChunks([index |-> index, nextId |-> nextId, ids |-> <<>>,
                               io |-> <<>>],
                              StoreChunksOf(text, ~no_chunk),
                              BaseMeta(text, <<>>, session, now)) :
          /\ index' = st.index
          /\ nextId' = st.nextId
          /\ io' = st.io
     /\ ret' = 0
     /\ now' = now + 1
     /\ ops' = ops + 1
     /\ call' = [op |-> "cli_store", text_arg |-> text_arg, stdin |-> stdin,
                 calls |-> <<[op |-> "store", content |-> text,
                              session_id |-> session, auto_chunk |-> ~no_chunk]>>]
     /\ UNCHANGED <<emb, pc>>

\* main(["store", ...]): ret is the exit code, call.calls the calls made on the
\* MemoryManager
CliStore(text_arg, stdin, session, no_chunk) ==
  LET text == IF text_arg = <<>> THEN stdin ELSE text_arg[1]
  IN IF Strip(text) = <<>>
     THEN /\ ret' = 1
          /\ io' = <<>>
          /\ call' = [op |-> "cli_store", text_arg |-> text_arg, stdin |-> stdin,
                      calls |-> <<>>]
          /\ UNCHANGED <<index, nextId, now, emb, ops, pc>>
     ELSE /\ ops < MaxWrites
          /\ \E st \in StoreChunks([index |-> index, nextId |-> nextId, ids |-> <<>>,
                                    io |-> <<>>],
                                   StoreChunksOf(text, ~no_chunk),
                                   BaseMeta(text, <<>>, session, now)) :
               /\ index' = st.index
               /\ nextId' = st.nextId
               /\ io' = st.io
          /\ ret' = 0
          /\ now' = now + 1
          /\ ops' = ops + 1
          /\ call' = [op |-> "cli_store", text_arg |-> text_arg, stdin |-> stdin,
                      calls |-> <<[op |-> "store", content |-> text,
                                   session_id |-> session, auto_chunk |-> ~no_chunk]>>]
          /\ UNCHANGED <<emb, pc>>

NextCli ==
  \/ \E text_arg \in TextArgs, stdin \in CliTexts, no_chunk \in BOOLEAN :
       CliStore(text_arg, stdin, "", no_chunk)
  \/ \E content \in {Empty, TextA} : Store(content, <<>>, "", TRUE)

SpecCli == InitCli /\ [][NextCli]_vars

\* the step is a store command whose text, argument or standard input, is
\* empty or blank
BlankCliStep ==
  /\ call'.op = "cli_store"
  /\ \/ call'.text_arg = <<>> /\ Strip(call'.stdin) = <<>>
     \/ call'.text_arg # <<>> /\ Strip(call'.text_arg[1]) = <<>>

\* C28: the store command given an empty or blank text, as argument or on
\* standard input, exits with code 1 and makes no call on the MemoryManager,
\* so that the index is as before; MemoryManager.store given the empty text
\* returns one id and makes one write, whose metadata has importance 0.0.
C28_CliRejectsBlank ==
  [][/\ BlankCliStep =>
          /\ ret' = 1
          /\ call'.calls = <<>>
          /\ io' = <<>>
          /\ index' = index
          /\ nextId' = nextId
     /\ (StoreStep /\ call'.content = Empty) =>
          /\ Len(ret') = 1
          /\ Cardinality(Writes(io')) = 1
          /\ \A w \in Writes(io') :
               /\ io'[w].id = ret'[1]
               /\ io'[w].metadata.importance = 0
          /\ \E j \in 1..Len(index') :
               index'[j].id = ret'[1] /\ index'[j].metadata.importance = 0
    ]_vars

\* C28 witness: the store command read a blank text from standard input and
\* exited with 1, on an index that holds the empty text stored by a direct call
C28_Witness ==
  /\ call.op = "cli_store" /\ call.text_arg = <<>> /\ call.stdin = Blank
  /\ ret = 1
  /\ \E j \in 1..Len(index) :
       index[j].document = Empty /\ index[j].metadata.importance = 0

(***************************************************************************)
(* SpecBlend: the ranking at the end of retrieve, on candidates whose      *)
(* similarity and importance are decimal numbers of one place, held in     *)
(* tenths.  The blended score of such a candidate is a number of           *)
(* hundredths, which the model holds exactly.                              *)
(***************************************************************************)
SimilarityTenths == {8, 9, 10}

ImportanceTenths == {1, 5, 9}

\* the memories the loop of retrieve can hand to the sort: two candidates
Candidates ==
  {<<[id |-> 1, similarity |-> s1, metadata |-> [importance |-> i1]],
     [id |-> 2, similarity |-> s2, metadata |-> [importance |-> i2]]>> :
     <<s1, i1, s2, i2>> \in SimilarityTenths \X ImportanceTenths
                             \X SimilarityTenths \X ImportanceTenths}

\* a key with the two weights exchanged
DecimalBlendSwapped(m) == 3 * m.similarity + 7 * MetaGet(m.metadata, "importance", 0)

\* the sort key m["similarity"] * 0.7 + m["metadata"].get("importance", 0) * 0.3,
\* in hundredths
DecimalBlend(m) == 7 * m.similarity + 3 * MetaGet(m.metadata, "importance", 0)

\* list.sort(key=DecimalBlend, reverse=True): a stable insertion of m
RECURSIVE InsertByDecimalBlend(_, _)
InsertByDecimalBlend(sorted, m) ==
  IF sorted = <<>> THEN <<m>>
  ELSE IF DecimalBlend(Head(sorted)) >= DecimalBlend(m)
  THEN <<Head(sorted)>> \o InsertByDecimalBlend(Tail(sorted), m)
  ELSE <<m>> \o sorted

RECURSIVE SortByDecimalBlend(_)
SortByDecimalBlend(memories) ==
  IF memories = <<>> THEN <<>>
  ELSE InsertByDecimalBlend(SortByDecimalBlend(SubSeq(memories, 1, Len(memories) - 1)),
                            memories[Len(memories)])

InitBlend ==
  /\ index = <<>>
  /\ nextId = 1
  /\ now = 0
  /\ emb \in [Texts -> {0}]
  /\ ops = 0
  /\ call \in {[op |-> "rank", memories |-> c, n_results |-> n] :
                 c \in Candidates, n \in 1..MaxResults}
  /\ ret = <<>>
  /\ io = <<>>
  /\ pc = "sort"

\* the sort and the truncation at the end of retrieve; io keeps the keys
RankCall ==
  /\ pc = "sort"
  /\ ret' = Truncate(SortByDecimalBlend(call.memories), call.n_results)
  /\ io' = [k \in 1..Len(call.memories) |-> DecimalBlend(call.memories[k])]
  /\ pc' = "done"
  /\ UNCHANGED <<index, nextId, now, emb, ops, call>>

NextBlend == RankCall

SpecBlend == InitBlend /\ [][NextBlend]_vars

\* the two candidates of the example: similarity 0.9 / importance 0.1 and
\* similarity 0.8 / importance 0.9
ExampleRanked ==
  /\ pc = "done"
  /\ call.memories[1].similarity = 9 /\ call.memories[1].metadata.importance = 1
  /\ call.memories[2].similarity = 8 /\ call.memories[2].metadata.importance = 9

SecondBeforeFirst ==
  /\ ret[1] = call.memories[2]
  /\ Len(ret) >= 2 => ret[2] = call.memories[1]

\* C26, as stated: the two candidates of the example get the blended scores
\* 0.65 and 0.83, and the second is returned before the first.
C26_BlendExample ==
  ExampleRanked => io = <<65, 83>> /\ SecondBeforeFirst

\* C26, amended: the two candidates of the example get the blended scores
\* 0.66 and 0.83, and the second is returned before the first.
C26_BlendExampleComputed ==
  ExampleRanked => io = <<66, 83>> /\ SecondBeforeFirst

C26_Witness ==
  ExampleRanked /\ call.n_results = 2 /\ Len(ret) = 2 /\ ret[1].id = 2 /\ ret[2].id = 1

(***************************************************************************)
(* SpecFailure: store calls of which some VectorStore call raises.  The    *)
(* methods of VectorStore and MemoryManager catch nothing, so the          *)
(* exception leaves store at the call that raised.  A write that raised    *)
(* may or may not have reached the collection.                             *)
(***************************************************************************)
\* the record of a call that raised
Raised(rec) == Overlay(rec, [raised |-> TRUE])

HasRaised(rec) == "raised" \in DOMAIN rec

\* _store_with_dedup with one of its VectorStore calls raising: every run up
\* to the exception
FailingRuns(st, content, metadata) ==
  LET counted == Append(st.io, [op |-> "count"])
  IN {[index |-> st.index, nextId |-> st.nextId,
       io |-> Append(st.io, Raised([op |-> "count"])), at |-> "count"]}
     \cup (IF VectorStoreCount(st.index) = 0 THEN {}
           ELSE {[index |-> st.index, nextId |-> st.nextId,
                  io |-> Append(counted, Raised([op |-> "query", text |-> content,
                                                 n_results |-> 1])),
                  at |-> "query"]})
     \cup UNION {{[index |-> coll, nextId |-> run.nextId,
                   io |-> Append(SubSeq(run.io, 1, Len(run.io) - 1),
                                 Raised(run.io[Len(run.io)])),
                   at |-> "write"] : coll \in {st.index, run.index}}
                   : run \in _store_with_dedup(st, content, metadata)}

\* a store whose exception is caught and whose writes are undone
StoreFailingRolledBack(content, metadata, session_id, auto_chunk, k) ==
  /\ ops < MaxWrites
  /\ k \in 1..Len(StoreChunksOf(content, auto_chunk))
  /\ LET chunks == StoreChunksOf(content, auto_chunk)
         base_meta == BaseMeta(content, metadata, session_id, now)
     IN \E st \in StoreChunks([index |-> index, nextId |-> nextId, ids |-> <<>>,
                               io |-> <<>>],
                              SubSeq(chunks, 1, k - 1), base_meta) :
          \E run \in FailingRuns(st, chunks[k], ChunkMeta(base_meta, chunks[k])) :
            /\ index' = index
            /\ nextId' = run.nextId
            /\ io' = run.io
            /\ ret' = [raised |-> run.at]
            /\ call' = [op |-> "store", content |-> content, metadata |-> metadata,
                        session_id |-> session_id, auto_chunk |-> auto_chunk,
                        failed |-> k]
  /\ now' = now + 1
  /\ ops' = ops + 1
  /\ UNCHANGED <<emb, pc>>

\* MemoryManager.store with a VectorStore call raising at chunk k
StoreFailing(content, metadata, session_id, auto_chunk, k) ==
  /\ ops < MaxWrites
  /\ k \in 1..Len(StoreChunksOf(content, auto_chunk))
  /\ LET chunks == StoreChunksOf(content, auto_chunk)
         base_meta == BaseMeta(content, metadata, session_id, now)
     IN \E st \in StoreChunks([index |-> index, nextId |-> nextId, ids |-> <<>>,
                               io |-> <<>>],
                              SubSeq(chunks, 1, k - 1), base_meta) :
          \E run \in FailingRuns(st, chunks[k], ChunkMeta(base_meta, chunks[k])) :
            /\ index' = run.index
            /\ nextId' = run.nextId
            /\ io' = run.io
            /\ ret' = [raised |-> run.at]
            /\ call' = [op |-> "store", content |-> content, metadata |-> metadata,
                        session_id |-> session_id, auto_chunk |-> auto_chunk,
                        failed |-> k]
  /\ now' = now + 1
  /\ ops' = ops + 1
  /\ UNCHANGED <<emb, pc>>

NextFailure ==
  \/ \E a \in DefaultArgs : Store(a.content, a.metadata, a.session_id, a.auto_chunk)
  \/ \E a \in DefaultArgs : \E k \in 1..MaxChunk :
       StoreFailing(a.content, a.metadata, a.session_id, a.auto_chunk, k)

SpecFailure == Init /\ [][NextFailure]_vars

\* the step is a store call that raised
FailedStoreStep == call'.op = "store" /\ ops' = ops + 1 /\ "failed" \in DOMAIN call'

\* the writes of a log that returned
WritesDone(log) == {w \in Writes(log) : ~HasRaised(log[w])}

\* C25: when a VectorStore call raises while store processes chunk k of M, the
\* exception reaches the caller of store, the call that raised is the last
\* one store makes (nothing is tried again), the k-1 writes of the chunks before k are in the
\* index afterwards, no entry is removed, and no write is made for a later
\* chunk.
C25_FailureMidStore ==
  [][FailedStoreStep =>
       LET k == call'.failed
           log == io'
       IN /\ "raised" \in DOMAIN ret'
          /\ Len(log) >= 1
          /\ \A n \in 1..Len(log) : HasRaised(log[n]) <=> n = Len(log)
          /\ Cardinality(WritesDone(log)) = k - 1
          /\ Cardinality(Writes(log)) <= k
          /\ \A w \in WritesDone(log) :
               \E j \in 1..Len(index') :
                 /\ index'[j].id = log[w].id
                 /\ (\A v \in Writes(log) : v > w => log[v].id # log[w].id)
                      => /\ index'[j].document = log[w].document
                         /\ index'[j].metadata = log[w].metadata
          /\ \A i \in 1..Len(index) : \E j \in 1..Len(index') : index'[j].id = index[i].id
          /\ \A n \in 1..Len(log) : log[n].op # "delete"
    ]_vars

\* C25 witness: a store of three chunks raised at the write of the third, and
\* the two entries written for the first two chunks are in the index
C25_Witness ==
  /\ call.op = "store" /\ "failed" \in DOMAIN call
  /\ call.failed = 3
  /\ "raised" \in DOMAIN ret /\ ret.raised = "write"
  /\ Cardinality(WritesDone(io)) = 2
  /\ \A w \in WritesDone(io) :
       \E j \in 1..Len(index) : index[j].id = io[w].id /\ index[j].document = io[w].document

(***************************************************************************)
(* SpecConcurrent: two MemoryManagers on the same collection, each making  *)
(* one store call of one chunk.  Every VectorStore call of                 *)
(* _store_with_dedup is a step of its own, and the steps of the two calls  *)
(* interleave.  Here call, ret, io and pc hold one value per caller: the   *)
(* call and its history, the id returned, the query's result and the next  *)
(* step.                                                                   *)
(***************************************************************************)
Callers == {1, 2}

\* the content each caller stores
ContentOf == <<TextA, TextB>>

\* the entry a store of TextC left in the collection
SeedEntry ==
  [id |-> 1, document |-> TextC,
   metadata |-> ChunkMeta(BaseMeta(TextC, <<>>, "", 0), TextC)]

NoResults == [ids |-> <<>>, documents |-> <<>>, metadatas |-> <<>>, distances |-> <<>>]

InitConcurrent ==
  /\ \/ index = <<>> /\ nextId = 1
     \/ index = <<SeedEntry>> /\ nextId = 2
  /\ now = 1
  /\ emb \in [Texts -> 0..MaxPoint]
  /\ ops = 0
  /\ call = [p \in Callers |->
               [op |-> "store", content |-> ContentOf[p], started |-> 0,
                finished |-> 0, wrote |-> "", document |-> <<>>,
                metadata |-> <<>>]]
  /\ ret = [p \in Callers |-> None]
  /\ io = [p \in Callers |-> NoResults]
  /\ pc = [p \in Callers |-> "count"]

\* store up to the count of _store_with_dedup
ConcurrentCount(p) ==
  /\ pc[p] = "count"
  /\ call' = [call EXCEPT
                ![p].started = now,
                ![p].metadata = ChunkMeta(BaseMeta(call[p].content, <<>>, "", now),
                                          call[p].content)]
  /\ pc' = [pc EXCEPT ![p] = IF VectorStoreCount(index) = 0 THEN "add" ELSE "query"]
  /\ now' = now + 1
  /\ UNCHANGED <<index, nextId, emb, ops, ret, io>>

\* the query of _store_with_dedup with its result never taken for a duplicate
ConcurrentQueryNoVerdict(p) ==
  /\ pc[p] = "query"
  /\ \E results \in VectorStoreQuery(index, call[p].content, 1) :
       /\ io' = [io EXCEPT ![p] = results]
       /\ pc' = [pc EXCEPT ![p] = "add"]
  /\ now' = now + 1
  /\ UNCHANGED <<index, nextId, emb, ops, call, ret>>

\* the query of _store_with_dedup and the verdict on its result
ConcurrentQuery(p) ==
  /\ pc[p] = "query"
  /\ \E results \in VectorStoreQuery(index, call[p].content, 1) :
       LET verdict == deduplicate_content(call[p].content, results.documents,
                                          results.distances, similarity_threshold)
       IN /\ io' = [io EXCEPT ![p] = results]
          /\ pc' = [pc EXCEPT ![p] = IF verdict.is_duplicate /\ verdict.best_idx # None
                                     THEN "update" ELSE "add"]
  /\ now' = now + 1
  /\ UNCHANGED <<index, nextId, emb, ops, call, ret>>

\* the add of _store_with_dedup, and the return of store
ConcurrentAdd(p) ==
  /\ pc[p] = "add"
  /\ index' = CollectionAdd(index, nextId, call[p].content, call[p].metadata)
  /\ nextId' = nextId + 1
  /\ ret' = [ret EXCEPT ![p] = nextId]
  /\ call' = [call EXCEPT ![p].finished = now + 1, ![p].wrote = "add",
                          ![p].document = call[p].content]
  /\ pc' = [pc EXCEPT ![p] = "done"]
  /\ now' = now + 1
  /\ UNCHANGED <<emb, ops, io>>

\* the update of _store_with_dedup, and the return of store
ConcurrentUpdate(p) ==
  /\ pc[p] = "update"
  /\ LET best_idx == ArgMin(io[p].distances)
         existing_id == io[p].ids[best_idx]
         merged == Merged(call[p].content, io[p].documents[best_idx])
     IN /\ index' = CollectionUpdate(index, existing_id, merged, call[p].metadata)
        /\ ret' = [ret EXCEPT ![p] = existing_id]
        /\ call' = [call EXCEPT ![p].finished = now + 1, ![p].wrote = "update",
                                ![p].document = merged]
  /\ pc' = [pc EXCEPT ![p] = "done"]
  /\ now' = now + 1
  /\ UNCHANGED <<nextId, emb, ops, io>>

NextConcurrent ==
  \E p \in Callers :
    \/ ConcurrentCount(p)
    \/ ConcurrentQuery(p)
    \/ ConcurrentAdd(p)
    \/ ConcurrentUpdate(p)

SpecConcurrent == InitConcurrent /\ [][NextConcurrent]_vars

\* both calls have returned
BothDone == \A p \in Callers : pc[p] = "done"

\* the call of p returned before the call of q began
Before(p, q) == call[p].finished <= call[q].started

\* the two contents are near-duplicates of each other
NearDuplicates ==
  FSub(One, Distance(ContentOf[1], ContentOf[2])) >= similarity_threshold

\* C24, as stated: two store calls of near-duplicate chunks that run one after
\* the other end with the second call merging and adding no entry (while
\* interleaved both can add).
C24_SecondCallMerges ==
  (BothDone /\ NearDuplicates) =>
    \A p, q \in Callers :
      (p # q /\ Before(p, q)) => call[q].wrote = "update"

\* C24, amended: two store calls of near-duplicate chunks that run one after
\* the other, the first leaving its chunk as the text of the entry it wrote,
\* end with the second call merging and adding no entry.
C24_SecondCallMergesIntoFirst ==
  (BothDone /\ NearDuplicates) =>
    \A p, q \in Callers :
      (p # q /\ Before(p, q) /\ call[p].document = call[p].content) =>
        /\ call[q].wrote = "update"
        /\ \E j \in 1..Len(index) : index[j].id = ret[q]

\* C24 witness: the two calls interleaved, both added, and the index holds an
\* entry for each of the two near-duplicate contents
C24_Witness ==
  /\ BothDone
  /\ NearDuplicates
  /\ ~Before(1, 2) /\ ~Before(2, 1)
  /\ \A p \in Callers : call[p].wrote = "add"
  /\ ret[1] # ret[2]
  /\ \A p \in Callers :
       \E j \in 1..Len(index) :
         index[j].id = ret[p] /\ index[j].document = ContentOf[p]

(***************************************************************************)
(* SpecRetrieve: store calls with the defaults, entries another client of  *)
(* the collection adds, and retrieve.                                      *)
(***************************************************************************)
NextRetrieve ==
  \/ \E content \in Texts : Store(content, <<>>, "", TRUE)
  \/ VectorStoreAdd(TextC, [key |-> "val"])
  \/ \E query \in Queries, n_results \in 0..MaxResults, min_importance \in MinImportances :
       Retrieve(query, n_results, min_importance)

SpecRetrieve == Init /\ [][NextRetrieve]_vars

(***************************************************************************)
(* Claims about retrieve, under SpecRetrieve.                              *)
(***************************************************************************)
\* retrieve was called on a non-empty index
Retrieved == call.op = "retrieve" /\ Len(io) = 3

\* similarity * 0.7 + importance * 0.3, times 10 * One * ImpScale
Score(similarity, importance) == 7 * similarity * ImpScale + 3 * importance * One

ScoreOf(m) == Score(m.similarity, MetaGet(m.metadata, "importance", 0))

\* the candidates of the query that pass the importance filter
Survivors(results, min_importance) ==
  {i \in 1..Len(results.ids) :
     MetaGet(results.metadatas[i], "importance", 0) >= min_importance}

\* the place of memory m in the query's result
PlaceOf(results, m) == CHOOSE i \in 1..Len(results.ids) : results.ids[i] = m.id

\* C6: retrieve returns the candidates that pass the importance filter in
\* non-increasing order of similarity * 0.7 + importance * 0.3, and candidates
\* of equal score in the order of the query's result.
C6_Ranked ==
  Retrieved =>
    LET results == io[3].results
        passing == Survivors(results, call.min_importance)
    IN /\ Len(ret) = Min2(call.n_results, Cardinality(passing))
       /\ \A k \in 1..Len(ret) :
            \E i \in passing :
              ret[k] = [id |-> results.ids[i], content |-> results.documents[i],
                        metadata |-> results.metadatas[i],
                        similarity |-> One - results.distances[i]]
       /\ \A k, l \in 1..Len(ret) :
            k < l =>
              /\ ScoreOf(ret[k]) >= ScoreOf(ret[l])
              /\ ScoreOf(ret[k]) = ScoreOf(ret[l]) =>
                   PlaceOf(results, ret[k]) < PlaceOf(results, ret[l])
       /\ \A i \in passing :
            (\A k \in 1..Len(ret) : ret[k].id # results.ids[i]) =>
              \A k \in 1..Len(ret) :
                ScoreOf(ret[k]) >= Score(One - results.distances[i],
                                         MetaGet(results.metadatas[i], "importance", 0))

\* C6 witness: two results of equal score, and a candidate left out
C6_Witness ==
  /\ Retrieved
  /\ Len(ret) = 2
  /\ ScoreOf(ret[1]) = ScoreOf(ret[2])
  /\ Len(io[3].results.ids) = 3

\* C7: no entry whose stored importance is below min_importance is in the result
\* of retrieve, whatever its similarity; an entry without an importance counts
\* as importance 0.0.
C7_Filter ==
  call.op = "retrieve" =>
    \A k \in 1..Len(ret) :
      \E i \in 1..Len(index) :
        /\ index[i].id = ret[k].id
        /\ MetaGet(index[i].metadata, "importance", 0) >= call.min_importance

\* C7 witness: the result leaves out an entry that has no importance and is at
\* similarity 1.0, and holds another entry
C7_Witness ==
  /\ Retrieved
  /\ call.min_importance > 0
  /\ Len(ret) >= 1
  /\ \E i \in 1..Len(io[3].results.ids) :
       /\ "importance" \notin DOMAIN io[3].results.metadatas[i]
       /\ io[3].results.distances[i] = 0
       /\ \A k \in 1..Len(ret) : ret[k].id # io[3].results.ids[i]

\* C17: on an empty index retrieve returns an empty list, and the only call it
\* makes to the index is count: no query.
C17_EmptyIndex ==
  (call.op = "retrieve" /\ index = <<>>) =>
    /\ ret = <<>>
    /\ io = <<[op |-> "count"]>>

\* C17 witness: retrieve was asked for results on an empty index
C17_Witness ==
  /\ call.op = "retrieve"
  /\ index = <<>>
  /\ call.n_results > 0

\* C18: retrieve returns at most n_results results, and no id twice.
C18_AtMostNResults ==
  call.op = "retrieve" =>
    /\ Len(ret) <= call.n_results
    /\ \A k, l \in 1..Len(ret) : k # l => ret[k].id # ret[l].id

\* C18 witness: more entries pass the filter than were asked for
C18_Witness ==
  /\ Retrieved
  /\ Len(ret) = call.n_results
  /\ call.n_results >= 1
  /\ Cardinality(Survivors(io[3].results, call.min_importance)) > call.n_results

(***************************************************************************)
(* SpecOverfetch: a MemoryManager opened on a collection that another      *)
(* client has written to, stores of TextA, further foreign entries, and    *)
(* retrieve of TextC.  TextB is not used and lies where TextA does.        *)
(***************************************************************************)
\* the entry VectorStoreAdd(TextC, [key |-> "val"]) leaves in an empty collection
ForeignEntry == [id |-> 1, document |-> TextC, metadata |-> [key |-> "val"]]

InitOverfetch ==
  /\ index = <<ForeignEntry>>
  /\ nextId = 2
  /\ now = 0
  /\ emb \in {e \in [Texts -> 0..MaxPoint] : e[TextB] = e[TextA]}
  /\ ops = 0
  /\ call = [op |-> "init"]
  /\ ret = <<>>
  /\ io = <<>>
  /\ pc = "done"

NextOverfetch ==
  \/ Store(TextA, <<>>, "", TRUE)
  \/ VectorStoreAdd(TextC, [key |-> "val"])
  \/ \E n_results \in 1..MaxResults, min_importance \in MinImportances :
       Retrieve(TextC, n_results, min_importance)

SpecOverfetch == InitOverfetch /\ [][NextOverfetch]_vars

\* the entries of the index that pass the importance filter
Important(coll, min_importance) ==
  {i \in 1..Len(coll) : MetaGet(coll[i].metadata, "importance", 0) >= min_importance}

\* C31: on a non-empty index retrieve makes one query, for
\* min(n_results * 3, count()) candidates, makes no write, and returns only
\* candidates of that query.
C31_OneOverfetchQuery ==
  (call.op = "retrieve" /\ VectorStoreCount(index) > 0) =>
    /\ Cardinality(QueriesOf(io)) = 1
    /\ Writes(io) = {}
    /\ \A q \in QueriesOf(io) :
         /\ io[q].text = call.query
         /\ io[q].n_results = Min2(call.n_results * 3, VectorStoreCount(index))
         /\ Len(io[q].results.ids) = io[q].n_results
         /\ \A k \in 1..Len(ret) :
              \E i \in 1..Len(io[q].results.ids) :
                /\ io[q].results.ids[i] = ret[k].id
                /\ io[q].results.documents[i] = ret[k].content
                /\ io[q].results.metadatas[i] = ret[k].metadata

\* C31 witness: retrieve returned fewer than n_results memories on an index
\* that holds n_results entries of importance at least min_importance
C31_Witness ==
  /\ call.op = "retrieve"
  /\ Len(ret) < call.n_results
  /\ Cardinality(Important(index, call.min_importance)) >= call.n_results
  /\ \A q \in QueriesOf(io) : io[q].n_results = call.n_results * 3
  /\ VectorStoreCount(index) > call.n_results * 3

(***************************************************************************)
(* SpecRead: the reading calls of a MemoryManager, retrieve, count and     *)
(* list_all, between stores, foreign entries and deletes.                  *)
(***************************************************************************)
\* MemoryManager.count
Count ==
  /\ call' = [op |-> "count"]
  /\ ret' = VectorStoreCount(index)
  /\ io' = <<[op |-> "count"]>>
  /\ UNCHANGED <<index, nextId, now, emb, ops, pc>>

NextRead ==
  \/ \E content \in {TextA, TextC} : Store(content, <<>>, "", TRUE)
  \/ VectorStoreAdd(TextC, [key |-> "val"])
  \/ \E memory_id \in 1..nextId : Delete(memory_id)
  \/ \E n_results \in 1..MaxResults, min_importance \in MinImportances :
       Retrieve(TextA, n_results, min_importance)
  \/ \E limit \in 0..MaxLimit : ListAll(limit)
  \/ Count

SpecRead == Init /\ [][NextRead]_vars

\* the step is a call of retrieve, count or list_all
ReadStep ==
  /\ call'.op \in {"retrieve", "count", "list_all"}
  /\ io' # <<>>

\* C35: retrieve, count and list_all make no add, update or delete and leave
\* the index as it was, whatever it holds.
C35_ReadOnly ==
  [][ReadStep =>
       /\ index' = index
       /\ nextId' = nextId
       /\ \A k \in 1..Len(io') : io'[k].op \in {"count", "query", "get_all"}
    ]_vars

\* C35 witness: retrieve returned two memories of an index of three entries,
\* which holds them still
C35_Witness ==
  /\ call.op = "retrieve"
  /\ Len(ret) = 2
  /\ Len(index) = 3
  /\ \A k \in 1..Len(ret) : ret[k].id \in IdsOf(index)
  /\ \A k \in 1..Len(io) : io[k].op \in {"count", "query"}

(***************************************************************************)
(* SpecStore: the calls of a VectorStore, add, delete and query.  For a    *)
(* query call, io holds the calls made on the collection.                  *)
(***************************************************************************)
\* the numbers of results query is asked for: n_results is a count
ResultCounts == 0..MaxNeighbours

\* a query that hands every request on to the collection
VectorStoreQueryCallUnguarded(query_text, n_results) ==
  LET n == Min2(n_results, VectorStoreCount(index))
  IN /\ call' = [op |-> "query", query_text |-> query_text, n_results |-> n_results]
     /\ \E results \in CollectionQuery(index, query_text, n) :
          /\ ret' = results
          /\ io' = <<[op |-> "collection.count"],
                     [op |-> "collection.query", n_results |-> n]>>
     /\ UNCHANGED <<index, nextId, now, emb, ops, pc>>

\* VectorStore.query
VectorStoreQueryCall(query_text, n_results) ==
  LET n == Min2(n_results, VectorStoreCount(index))
  IN /\ call' = [op |-> "query", query_text |-> query_text, n_results |-> n_results]
     /\ IF n = 0
        THEN /\ ret' = [ids |-> <<>>, documents |-> <<>>, metadatas |-> <<>>,
                        distances |-> <<>>]
             /\ io' = <<[op |-> "collection.count"]>>
        ELSE \E results \in CollectionQuery(index, query_text, n) :
               /\ ret' = results
               /\ io' = <<[op |-> "collection.count"],
                          [op |-> "collection.query", n_results |-> n]>>
     /\ UNCHANGED <<index, nextId, now, emb, ops, pc>>

NextStore ==
  \/ \E document \in {TextA, TextC} : VectorStoreAdd(document, [key |-> "val"])
  \/ \E memory_id \in 1..nextId : Delete(memory_id)
  \/ \E query_text \in Queries, n_results \in ResultCounts :
       VectorStoreQueryCall(query_text, n_results)

SpecStore == Init /\ [][NextStore]_vars

\* the query calls made on the collection
CollectionQueries(log) == {k \in 1..Len(log) : log[k].op = "collection.query"}

\* C36: VectorStore.query asks the collection for no more results than it
\* holds and returns min(n_results, count()) of them; on an empty store or
\* with n_results = 0 it returns four empty arrays and makes no query on the
\* collection.
C36_QueryCapped ==
  call.op = "query" =>
    LET n == Min2(call.n_results, VectorStoreCount(index))
    IN /\ \A k \in CollectionQueries(io) :
            io[k].n_results >= 1 /\ io[k].n_results <= VectorStoreCount(index)
       /\ Len(ret.ids) = n
       /\ Len(ret.documents) = n
       /\ Len(ret.metadatas) = n
       /\ Len(ret.distances) = n
       /\ \A i \in 1..n : ret.ids[i] \in IdsOf(index)
       /\ (VectorStoreCount(index) = 0 \/ call.n_results = 0) =>
            /\ ret = [ids |-> <<>>, documents |-> <<>>, metadatas |-> <<>>,
                      distances |-> <<>>]
            /\ CollectionQueries(io) = {}

\* C36 witness: a query for more results than the store holds returned all
\* the store's entries
C36_Witness ==
  /\ call.op = "query"
  /\ VectorStoreCount(index) = 2
  /\ call.n_results > 2
  /\ Len(ret.ids) = 2
  /\ \A k \in CollectionQueries(io) : io[k].n_results = 2
  /\ CollectionQueries(io) # {}

(***************************************************************************)
(* SpecSimilarity: store and retrieve over texts whose embeddings lie far  *)
(* enough apart for every distance from 0.0 to 2.0 to occur.               *)
(***************************************************************************)
\* points at the distances 1, MaxPoint and MaxPoint + 1 of each other
SpreadPoints == {0, 1, MaxPoint + 1}

InitSimilarity ==
  /\ index = <<>>
  /\ nextId = 1
  /\ now = 0
  /\ emb \in [Texts -> SpreadPoints]
  /\ ops = 0
  /\ call = [op |-> "init"]
  /\ ret = <<>>
  /\ io = <<>>
  /\ pc = "done"

NextSimilarity ==
  \/ \E content \in Texts : Store(content, <<>>, "", TRUE)
  \/ \E query \in Queries, n_results \in 1..MaxResults : Retrieve(query, n_results, 0)

SpecSimilarity == InitSimilarity /\ [][NextSimilarity]_vars

\* C29: every memory retrieve returns has the similarity 1 - distance, the
\* distance being the one the query gave for it, and that similarity is in
\* [-1, 1] when the distance is in [0, 2].
C29_SimilarityOfDistance ==
  Retrieved =>
    LET results == io[3].results
    IN \A k \in 1..Len(ret) :
         \E i \in 1..Len(results.ids) :
           /\ results.ids[i] = ret[k].id
           /\ results.distances[i] = Distance(call.query, ret[k].content)
           /\ ret[k].similarity = One - results.distances[i]
           /\ (0 <= results.distances[i] /\ results.distances[i] <= 2 * One)
                => (0 - One <= ret[k].similarity /\ ret[k].similarity <= One)

\* C29 witness: a result at distance 2.0 is returned with similarity -1.0,
\* together with one at a smaller distance
C29_Witness ==
  /\ Retrieved
  /\ Len(ret) = 2
  /\ \E k \in 1..Len(ret) :
       Distance(call.query, ret[k].content) = 2 * One /\ ret[k].similarity = 0 - One
  /\ \E k \in 1..Len(ret) : ret[k].similarity > 0

(***************************************************************************)
(* SpecDedup: deduplicate_content applied to every threshold in [0, 1] and *)
(* to no distance, to one distance in [0, 2], and to several distances of  *)
(* a sample.                                                               *)
(***************************************************************************)
\* 0.0, 1 - 0.92, 0.5, 1.0 and 2.0
SampleDistances ==
  {0, FSub(One, SIMILARITY_THRESHOLD), One \div 2, One, 2 * One}

DedupDistances ==
  {<<>>} \cup {<<d>> : d \in FloatsIn(0, 2 * One)}
    \cup UNION {[1..k -> SampleDistances] : k \in 2..MaxNeighbours}

InitDedup ==
  /\ Idle
  /\ pc = "call"
  /\ ret = <<>>
  /\ \E distances \in DedupDistances, threshold \in FloatsIn(0, One) :
       call = [op |-> "deduplicate_content", candidate |-> <<"a">>,
               documents |-> [i \in 1..Len(distances) |-> <<"a">>],
               distances |-> distances, threshold |-> threshold]

DedupCall ==
  /\ pc = "call"
  /\ call.op = "deduplicate_content"
  /\ ret' = deduplicate_content(call.candidate, call.documents, call.distances,
                                call.threshold)
  /\ pc' = "done"
  /\ UNCHANGED <<index, nextId, now, emb, ops, call, io>>

NextDedup == DedupCall

SpecDedup == InitDedup /\ [][NextDedup]_vars

DedupDone == pc = "done" /\ call.op = "deduplicate_content"

MinDistance(d) == SetMin({d[i] : i \in 1..Len(d)})

\* C9: a nearest distance equal to 1 - threshold is a duplicate (the boundary
\* is inclusive), and a nearest distance greater than 1 - threshold is not.
C9_ThresholdBoundary ==
  (DedupDone /\ call.distances # <<>>) =>
    LET nearest == MinDistance(call.distances)
        boundary == FSub(One, call.threshold)
    IN /\ nearest = boundary => ret.is_duplicate
       /\ nearest > boundary => ~ret.is_duplicate

\* C10: the index is None, and the verdict False, exactly when there is no
\* distance; otherwise the index is that of the smallest distance, the first
\* such index on ties, whatever the threshold and the verdict.
C10_NearestIndex ==
  DedupDone =>
    /\ ret.best_idx = None <=> call.distances = <<>>
    /\ call.distances = <<>> => ~ret.is_duplicate
    /\ call.distances # <<>> =>
         /\ ret.best_idx \in 1..Len(call.distances)
         /\ \A j \in 1..Len(call.distances) :
              /\ call.distances[ret.best_idx] <= call.distances[j]
              /\ j < ret.best_idx => call.distances[j] > call.distances[ret.best_idx]
         /\ \A t \in FloatsIn(0, One) :
              deduplicate_content(call.candidate, call.documents,
                                  call.distances, t).best_idx = ret.best_idx

\* C10 witness: several distances with the smallest one twice, not a duplicate
C10_Witness ==
  /\ DedupDone
  /\ Len(call.distances) >= 3
  /\ ~ret.is_duplicate
  /\ ret.best_idx = 2
  /\ call.distances[3] = call.distances[2]

====
